---- MODULE Spec2Model ----
(***************************************************************************)
(* Model of the labelvol merge/split engine of dvid                        *)
(* (src/datatype/googlevoxels/googlevoxels.go, lines 1045-1487):           *)
(* MergeLabels, SplitLabels, diffBlock and writeLabelVol, together with    *)
(* the collaborators they call (store, event bus, dirty registry, RLE      *)
(* helpers of package dvid), which are modelled at their interface; and of  *)
(* the tile requests of the same file (ServeTile, GetGoogleSpec, serveTile).*)
(***************************************************************************)
EXTENDS Integers, Sequences, FiniteSets, TLC

VARIABLES
    store,      \* key-value store: [<<label, block>> -> run list], domain = stored keys
    dirty,      \* dirtyLabels: label -> reference count
    nextLabel,  \* last label handed out by d.NewLabel
    events,     \* every message delivered by datastore.NotifySubscribers, in order
    calls,      \* per goroutine: the MergeLabels / SplitLabels call it is running
    dsplit,     \* diffBlock harness: the split run list
    dorig,      \* diffBlock harness: the original run list
    dres,       \* diffBlock harness: the outcome of diffBlock(dsplit, dorig)
    treq,       \* tile harness: the tile request handed to ServeTile
    tresp       \* tile harness: what ServeTile answered

vars == <<store, dirty, nextLabel, events, calls, dsplit, dorig, dres, treq, tresp>>

(***************************************************************************)
(* Bounds                                                                  *)
(***************************************************************************)
BlockX == 4          \* d.BlockSize along X (voxels per block)
DMaxX == 3           \* diffBlock harness: x coordinates 0..DMaxX-1
DMaxRuns == 2        \* diffBlock harness: runs per list
TileSize == 2        \* tile harness: the tilesize query option, in voxels
MaxTileCoord == 2    \* tile harness: tile coordinates 0..MaxTileCoord per axis

HeaderLen == 12      \* bytes of payload header read by SplitLabels
EncodingBinary == 0  \* dvid.EncodingBinary, the tag of a binary sparse volume

(***************************************************************************)
(* RLE / block model (package dvid)                                        *)
(***************************************************************************)
RLE(x, y, z, n) == [x |-> x, y |-> y, z |-> z, n |-> n]

\* The zero value of dvid.RLE (what make(dvid.RLEs, k) is filled with).
ZeroRLE == RLE(0, 0, 0, 0)

RunVoxels(r) == {<<r.x + i, r.y, r.z>> : i \in 0..(r.n - 1)}

Voxels(rles) == UNION {RunVoxels(rles[i]) : i \in DOMAIN rles}

RECURSIVE NumVoxels(_)
NumVoxels(rles) ==
    IF rles = <<>> THEN 0 ELSE Head(rles).n + NumVoxels(Tail(rles))

\* sort.Interface Less of dvid.RLEs: by start coordinate, Z then Y then X.
RLELess(a, b) ==
    \/ a.z < b.z
    \/ a.z = b.z /\ a.y < b.y
    \/ a.z = b.z /\ a.y = b.y /\ a.x < b.x

\* r put before the first run it is less than: after the runs equal to it.
RECURSIVE InsertSorted(_, _)
InsertSorted(r, s) ==
    IF s = <<>> THEN <<r>>
    ELSE IF RLELess(r, Head(s)) THEN <<r>> \o s
    ELSE <<Head(s)>> \o InsertSorted(r, Tail(s))

\* sort.Sort(rles): for lists of fewer than 12 runs an insertion sort from
\* the left, which keeps runs with the same start in their input order.
RECURSIVE SortRLEs(_)
SortRLEs(s) ==
    IF s = <<>> THEN <<>>
    ELSE InsertSorted(s[Len(s)], SortRLEs(SubSeq(s, 1, Len(s) - 1)))

IsSorted(s) == \A i \in 1..(Len(s) - 1) : RLELess(s[i], s[i + 1])

Reverse(s) == [i \in 1..Len(s) |-> s[Len(s) + 1 - i]]

Min(S) == CHOOSE m \in S : \A k \in S : m <= k

\* rle.Excise(cut): hit = FALSE is the nil result (no intersection); otherwise
\* frags are the 0-2 pieces of orig left of and right of cut, left piece first.
Excise(orig, cut) ==
    LET x0 == orig.x
        x1 == orig.x + orig.n - 1
        x2 == cut.x
        x3 == cut.x + cut.n - 1
    IN  IF orig.y # cut.y \/ orig.z # cut.z \/ x3 < x0 \/ x2 > x1
        THEN [hit |-> FALSE, frags |-> <<>>]
        ELSE [hit |-> TRUE,
              frags |-> (IF x0 < x2 THEN <<RLE(x0, orig.y, orig.z, x2 - x0)>> ELSE <<>>)
                     \o (IF x1 > x3 THEN <<RLE(x3 + 1, orig.y, orig.z, x1 - x3)>> ELSE <<>>)]

(***************************************************************************)
(* diffBlock                                                               *)
(***************************************************************************)
DiffResult(status, modified, dup) ==
    [status |-> status, modified |-> modified, dup |-> dup]

\* Lines 1451-1462: what is returned once the loop is left.  The copy loop
\* writes every list element to modified[i] with i never advanced.
DiffFinish(l) ==
    IF Len(l) = 0
    THEN DiffResult("ok", <<>>, TRUE)
    ELSE DiffResult("ok",
                    [i \in 1..Len(l) |-> IF i = 1 THEN l[Len(l)] ELSE ZeroRLE],
                    FALSE)

\* Lines 1426-1431: the fragments are each inserted right after e, so the
\* last inserted fragment ends up first; then (1434-1435) e is removed.
DiffReplace(l, e, frags) ==
    SubSeq(l, 1, e - 1) \o Reverse(frags) \o SubSeq(l, e + 1, Len(l))

\* Line 1448, e = e.Next(), after e was set to the predecessor of the removed
\* element (line 1436): 0 stands for the nil element, on which Next() panics.
DiffAdvance(l, left) ==
    IF left = 0 THEN "panic"
    ELSE IF left + 1 > Len(l) THEN "nil" ELSE "elem"

\* Lines 1416-1449.  l is the list as a sequence, e the index of the current
\* element (0 = nil), si the 1-based split index.
RECURSIVE DiffLoop(_, _, _, _)
DiffLoop(l, e, si, srles) ==
    IF e = 0 \/ si > Len(srles)
    THEN DiffFinish(l)
    ELSE LET orig == l[e]
             hits == {i \in si..Len(srles) : Excise(orig, srles[i]).hit}
         IN  IF hits = {}
             THEN DiffResult("err", <<>>, FALSE)
             ELSE LET frags == Excise(orig, srles[Min(hits)]).frags
                      l2    == DiffReplace(l, e, frags)
                      left  == e - 1
                      adv   == DiffAdvance(l2, left)
                  IN  IF adv = "panic"
                      THEN DiffResult("panic", <<>>, FALSE)
                      ELSE DiffLoop(l2, IF adv = "nil" THEN 0 ELSE left + 1,
                                    si + 1, srles)

\* d.diffBlock(split, orig), lines 1397-1463.
diffBlock(split, orig) ==
    LET srles == SortRLEs(split)
        orles == SortRLEs(orig)
    IN  DiffLoop(orles, IF Len(orles) = 0 THEN 0 ELSE 1, 1, srles)

(***************************************************************************)
(* Blocks, partition, union (package dvid)                                 *)
(***************************************************************************)
\* d.BlockSize: BlockX voxels along X, one voxel along Y and Z.
BlockSize == [x |-> BlockX, y |-> 1, z |-> 1]

\* Block coordinate (an IZYXString) of a voxel: <<z, y, x>> block indices.
BlockOf(v) == <<v[3] \div BlockSize.z, v[2] \div BlockSize.y, v[1] \div BlockSize.x>>

\* Byte order of IZYXString keys: Z-major, then Y, then X.
BlkLess(a, b) ==
    \/ a[1] < b[1]
    \/ a[1] = b[1] /\ a[2] < b[2]
    \/ a[1] = b[1] /\ a[2] = b[2] /\ a[3] < b[3]

RECURSIVE SortBlocks(_)
SortBlocks(S) ==
    IF S = {} THEN <<>>
    ELSE LET m == CHOOSE b \in S : \A o \in S \ {b} : BlkLess(b, o)
         IN  <<m>> \o SortBlocks(S \ {m})

\* BlockRLEs.SortedKeys()
SortedKeys(brles) == SortBlocks(DOMAIN brles)

\* One run cut at the block boundaries along X.
RECURSIVE SplitRun(_)
SplitRun(r) ==
    IF r.n <= 0 THEN <<>>
    ELSE LET room == BlockSize.x - (r.x % BlockSize.x)
             n1   == IF r.n < room THEN r.n ELSE room
         IN  <<RLE(r.x, r.y, r.z, n1)>> \o SplitRun(RLE(r.x + n1, r.y, r.z, r.n - n1))

RECURSIVE SplitRuns(_)
SplitRuns(spans) ==
    IF spans = <<>> THEN <<>> ELSE SplitRun(Head(spans)) \o SplitRuns(Tail(spans))

RunBlock(r) == BlockOf(<<r.x, r.y, r.z>>)

RECURSIVE SelectBlock(_, _)
SelectBlock(pieces, b) ==
    IF pieces = <<>> THEN <<>>
    ELSE (IF RunBlock(Head(pieces)) = b THEN <<Head(pieces)>> ELSE <<>>)
         \o SelectBlock(Tail(pieces), b)

\* RLEs.Partition(blockSize): per-block run lists, runs kept in span order.
Partition(spans) ==
    LET pieces == SplitRuns(spans)
        blks   == {RunBlock(pieces[i]) : i \in DOMAIN pieces}
    IN  [b \in blks |-> SelectBlock(pieces, b)]

\* RLEs.Stats(): the number of voxels (sum of run lengths).
Stats(spans) == NumVoxels(spans)

\* The maximal runs of a voxel set, sorted.
RunsOf(V) ==
    LET starts == {v \in V : <<v[1] - 1, v[2], v[3]>> \notin V}
        len(v) == Min({n \in 1..Cardinality(V) : <<v[1] + n, v[2], v[3]>> \notin V})
        RECURSIVE build(_)
        build(S) == IF S = {} THEN <<>>
                    ELSE LET v == CHOOSE w \in S : TRUE
                         IN  InsertSorted(RLE(v[1], v[2], v[3], len(v)), build(S \ {v}))
    IN  build(starts)

\* RLEs.Add: the sorted, coalesced union of two run lists.
Add(a, b) == RunsOf(Voxels(a) \cup Voxels(b))

\* BlockRLEs.NumVoxels()
RECURSIVE MapNumVoxels(_)
MapNumVoxels(brles) ==
    IF DOMAIN brles = {} THEN 0
    ELSE LET b == CHOOSE k \in DOMAIN brles : TRUE
         IN  NumVoxels(brles[b]) + MapNumVoxels([k \in DOMAIN brles \ {b} |-> brles[k]])

MapVoxels(brles) == UNION {Voxels(brles[b]) : b \in DOMAIN brles}

(***************************************************************************)
(* Storage collaborator                                                    *)
(***************************************************************************)
LabelBlocks(st, label) == {k[2] : k \in {kk \in DOMAIN st : kk[1] = label}}

\* d.GetLabelRLEs(v, label)
GetLabelRLEs(st, label) == [b \in LabelBlocks(st, label) |-> st[<<label, b>>]]

\* store.DeleteRange over the whole key range of label.
DeleteRange(st, label) == [k \in {kk \in DOMAIN st : kk[1] # label} |-> st[k]]

Put(st, key, val) == [k \in DOMAIN st \cup {key} |-> IF k = key THEN val ELSE st[k]]

Delete(st, key) == [k \in DOMAIN st \ {key} |-> st[k]]

BatchPut(key, val) == [op |-> "put", key |-> key, val |-> val]
BatchDelete(key)   == [op |-> "delete", key |-> key, val |-> <<>>]

\* batch.Commit(): the queued operations applied in order.
RECURSIVE Commit(_, _)
Commit(st, batch) ==
    IF batch = <<>> THEN st
    ELSE LET o == Head(batch)
         IN  Commit(IF o.op = "put" THEN Put(st, o.key, o.val) ELSE Delete(st, o.key),
                    Tail(batch))

LabelVoxels(st, label) == MapVoxels(GetLabelRLEs(st, label))

(***************************************************************************)
(* Dirty label tracker (labels.DirtyCache)                                 *)
(***************************************************************************)
Labels == 1..5

Incr(d, label) == [d EXCEPT ![label] = @ + 1]

Decr(d, label) == [d EXCEPT ![label] = IF @ > 0 THEN @ - 1 ELSE 0]

RECURSIVE IncrAll(_, _)
IncrAll(d, S) ==
    IF S = {} THEN d
    ELSE LET l == CHOOSE x \in S : TRUE IN IncrAll(Incr(d, l), S \ {l})

RECURSIVE DecrAll(_, _)
DecrAll(d, S) ==
    IF S = {} THEN d
    ELSE LET l == CHOOSE x \in S : TRUE IN DecrAll(Decr(d, l), S \ {l})

\* AddMerge / RemoveMerge: the target and every merged-from label.
AddMerge(d, target, merged) == IncrAll(Incr(d, target), merged)

RemoveMerge(d, target, merged) == DecrAll(Decr(d, target), merged)

(***************************************************************************)
(* Split payload (binary sparse volume)                                    *)
(***************************************************************************)
\* A payload as the reader delivers it: hdr header bytes are available, the
\* first of them is tag; count is the run count field (-1: the stream ends
\* before it); spans are the run records that follow.
Payload(tag, hdr, count, spans) ==
    [tag |-> tag, hdr |-> hdr, count |-> count, spans |-> spans]

\* Lines 1256-1272: header, encoding tag, run count, run records.
DecodePayload(pl) ==
    IF pl.hdr < HeaderLen THEN [ok |-> FALSE, split |-> <<>>]
    ELSE IF pl.tag # EncodingBinary THEN [ok |-> FALSE, split |-> <<>>]
    ELSE IF pl.count < 0 THEN [ok |-> FALSE, split |-> <<>>]
    ELSE IF Len(pl.spans) < pl.count THEN [ok |-> FALSE, split |-> <<>>]
    ELSE [ok |-> TRUE, split |-> SubSeq(pl.spans, 1, pl.count)]

(***************************************************************************)
(* Event bus collaborator                                                  *)
(***************************************************************************)
\* One call of datastore.NotifySubscribers by goroutine p; ok tells whether
\* it returned without error.
Ev(p, event, msg, ok) == [proc |-> p, event |-> event, msg |-> msg, ok |-> ok]

DeltaMergeStart(target, merged) ==
    [type |-> "DeltaMergeStart", target |-> target, merged |-> merged]

\* Lines 1137-1141.
DeltaDeleteSize(label, size) ==
    [type |-> "DeltaDeleteSize", label |-> label, oldSize |-> size, oldKnown |-> TRUE]

DeltaMerge(target, merged, blocks) ==
    [type |-> "DeltaMerge", target |-> target, merged |-> merged, blocks |-> blocks]

\* DeltaReplaceSize with the target's old size left out of the new size.
DeltaReplaceSizeMut(label, oldSize, added) ==
    [type |-> "DeltaReplaceSize", label |-> label, oldSize |-> oldSize,
     newSize |-> added]

\* Lines 1193-1197.
DeltaReplaceSize(label, oldSize, added) ==
    [type |-> "DeltaReplaceSize", label |-> label, oldSize |-> oldSize,
     newSize |-> oldSize + added]

DeltaMergeEnd(target, merged) ==
    [type |-> "DeltaMergeEnd", target |-> target, merged |-> merged]

DeltaSplitStart(old, new) ==
    [type |-> "DeltaSplitStart", oldLabel |-> old, newLabel |-> new]

DeltaSplit(old, new, splitmap, splitblks) ==
    [type |-> "DeltaSplit", oldLabel |-> old, newLabel |-> new,
     split |-> splitmap, sortedBlocks |-> splitblks]

\* Lines 1365-1368.
DeltaNewSize(label, size) ==
    [type |-> "DeltaNewSize", label |-> label, size |-> size]

\* DeltaModSize with the sign of the size change lost.
DeltaModSizeMut(label, size) ==
    [type |-> "DeltaModSize", label |-> label, sizeChange |-> size]

\* Lines 1375-1378: SizeChange is int64(-toLabelSize).
DeltaModSize(label, size) ==
    [type |-> "DeltaModSize", label |-> label, sizeChange |-> 0 - size]

DeltaSplitEnd(old, new) ==
    [type |-> "DeltaSplitEnd", oldLabel |-> old, newLabel |-> new]

(***************************************************************************)
(* Calls                                                                   *)
(***************************************************************************)
Procs == {1, 2}

NoPayload == Payload(EncodingBinary, 0, -1, <<>>)

NoHeld == [l \in Labels |-> 0]

\* A goroutine that has not called anything yet.  pre and dirty0 record the
\* store and the registry at the call; marked and released count, per label,
\* the marks and releases the call has made in the registry; fault tells
\* whether a store or publish call of it has failed; deleted holds the
\* merged-from labels whose key range the call has deleted.
IdleCall ==
    [pc |-> "idle", op |-> "none", res |-> "none", ret |-> 0,
     pre |-> <<>>, dirty0 |-> NoHeld, marked |-> NoHeld, released |-> NoHeld,
     target |-> 0, merged |-> {}, todo |-> {}, cur |-> 0,
     toRLEs |-> <<>>, toSize |-> 0, fromRLEs |-> <<>>, fromSize |-> 0,
     added |-> 0, blocksChanged |-> {},
     fromLabel |-> 0, payload |-> NoPayload, toLabel |-> 0,
     split |-> <<>>, splitSize |-> 0, splitmap |-> <<>>, splitblks |-> <<>>,
     batch |-> <<>>, diffed |-> <<>>, committed |-> FALSE, fault |-> FALSE,
     deleted |-> {}]

\* The call after a call it made (to the store, to the publisher, to
\* MarshalBinary or to Partition) has failed.
Fault(c) == [c EXCEPT !.fault = TRUE]

SetCall(p, c) == calls' = [calls EXCEPT ![p] = c]

Publish(p, event, msg, ok) == events' = Append(events, Ev(p, event, msg, ok))

(***************************************************************************)
(* MergeLabels                                                             *)
(***************************************************************************)
\* Every return statement of MergeLabels after line 1111: the result is set
\* and the deferred function is still to run.
MergeReturn(p, c, res) ==
    /\ SetCall(p, [c EXCEPT !.pc = "m_defer", !.res = res])
    /\ UNCHANGED dirty

\* Lines 1109-1111: the deferred RemoveMerge, run when MergeLabels returns.
MergeDeferred(p) ==
    LET c == calls[p] IN
    /\ c.pc = "m_defer"
    /\ dirty' = RemoveMerge(dirty, c.target, c.merged)
    /\ SetCall(p, [c EXCEPT !.pc = "done",
                   !.released = AddMerge(c.released, c.target, c.merged)])
    /\ UNCHANGED <<store, nextLabel, events, dsplit, dorig, dres, treq, tresp>>

\* A return of MergeLabels before the defer of line 1111 is registered.
MergeReturnEarly(p, c, res) ==
    /\ SetCall(p, [c EXCEPT !.pc = "done", !.res = res])
    /\ UNCHANGED dirty

\* The call d.MergeLabels(v, MergeOp{target, merged}).
MergeBegin(p, target, merged) ==
    /\ calls[p].pc = "idle"
    /\ SetCall(p, [calls[p] EXCEPT !.pc = "m_store", !.op = "merge",
                   !.target = target, !.merged = merged, !.pre = store,
                   !.dirty0 = dirty])
    /\ UNCHANGED <<store, dirty, nextLabel, events, dsplit, dorig, dres, treq, tresp>>

\* Lines 1090-1097: the store must exist and be batch-enabled.
MergeStore(p) ==
    /\ calls[p].pc = "m_store"
    /\ \E ok \in BOOLEAN :
         IF ok THEN SetCall(p, [calls[p] EXCEPT !.pc = "m_start"]) /\ UNCHANGED dirty
         ELSE MergeReturnEarly(p, Fault(calls[p]), "err")
    /\ UNCHANGED <<store, nextLabel, events, dsplit, dorig, dres, treq, tresp>>

\* MergeNotifyStart with the error of NotifySubscribers dropped.
MergeNotifyStartMut(p) ==
    LET c == calls[p] IN
    /\ c.pc = "m_start"
    /\ \E ok \in BOOLEAN :
         /\ Publish(p, "MergeStartEvent", DeltaMergeStart(c.target, c.merged), ok)
         /\ SetCall(p, [c EXCEPT !.pc = "m_dirty"]) /\ UNCHANGED dirty
    /\ UNCHANGED <<store, nextLabel, dsplit, dorig, dres, treq, tresp>>

\* Lines 1101-1106.
MergeNotifyStart(p) ==
    LET c == calls[p] IN
    /\ c.pc = "m_start"
    /\ \E ok \in BOOLEAN :
         /\ Publish(p, "MergeStartEvent", DeltaMergeStart(c.target, c.merged), ok)
         /\ IF ok THEN SetCall(p, [c EXCEPT !.pc = "m_dirty"]) /\ UNCHANGED dirty
            ELSE MergeReturnEarly(p, Fault(c), "err")
    /\ UNCHANGED <<store, nextLabel, dsplit, dorig, dres, treq, tresp>>

\* MergeAddDirty waiting until none of its labels is marked dirty.
MergeAddDirtyMut(p) ==
    LET c == calls[p] IN
    /\ c.pc = "m_dirty"
    /\ \A l \in c.merged \cup {c.target} : dirty[l] = 0
    /\ dirty' = AddMerge(dirty, c.target, c.merged)
    /\ SetCall(p, [c EXCEPT !.pc = "m_readto",
                   !.marked = AddMerge(c.marked, c.target, c.merged)])
    /\ UNCHANGED <<store, nextLabel, events, dsplit, dorig, dres, treq, tresp>>

\* Lines 1108-1111.
MergeAddDirty(p) ==
    LET c == calls[p] IN
    /\ c.pc = "m_dirty"
    /\ dirty' = AddMerge(dirty, c.target, c.merged)
    /\ SetCall(p, [c EXCEPT !.pc = "m_readto",
                   !.marked = AddMerge(c.marked, c.target, c.merged)])
    /\ UNCHANGED <<store, nextLabel, events, dsplit, dorig, dres, treq, tresp>>

\* Lines 1113-1122.
MergeReadTarget(p) ==
    LET c == calls[p] IN
    /\ c.pc = "m_readto"
    /\ \E ok \in BOOLEAN :
         IF ok
         THEN LET rles == GetLabelRLEs(store, c.target)
              IN  /\ SetCall(p, [c EXCEPT !.pc = "m_next", !.toRLEs = rles,
                                 !.toSize = MapNumVoxels(rles), !.todo = c.merged,
                                 !.added = 0, !.blocksChanged = {}])
                  /\ UNCHANGED dirty
         ELSE MergeReturn(p, Fault(c), "err")
    /\ UNCHANGED <<store, nextLabel, events, dsplit, dorig, dres, treq, tresp>>

\* Lines 1126-1134: the next merged-from label, in map iteration order.
MergeReadFrom(p) ==
    LET c == calls[p] IN
    /\ c.pc = "m_next"
    /\ c.todo # {}
    /\ \E fromLabel \in c.todo, ok \in BOOLEAN :
         IF ok
         THEN LET rles == GetLabelRLEs(store, fromLabel)
              IN  /\ SetCall(p, [c EXCEPT !.pc = "m_delsize", !.cur = fromLabel,
                                 !.todo = c.todo \ {fromLabel}, !.fromRLEs = rles,
                                 !.fromSize = MapNumVoxels(rles),
                                 !.added = c.added + MapNumVoxels(rles)])
                  /\ UNCHANGED dirty
         ELSE MergeReturn(p, Fault(c), "err")
    /\ UNCHANGED <<store, nextLabel, events, dsplit, dorig, dres, treq, tresp>>

\* Lines 1136-1146.
MergeNotifyDelete(p) ==
    LET c == calls[p] IN
    /\ c.pc = "m_delsize"
    /\ \E ok \in BOOLEAN :
         /\ Publish(p, "ChangeSizeEvent", DeltaDeleteSize(c.cur, c.fromSize), ok)
         /\ IF ok THEN SetCall(p, [c EXCEPT !.pc = "m_fold"]) /\ UNCHANGED dirty
            ELSE MergeReturn(p, Fault(c), "err")
    /\ UNCHANGED <<store, nextLabel, dsplit, dorig, dres, treq, tresp>>

\* Lines 1148-1161: fromLabel's blocks folded into the target's block map.
FoldBlocks(toRLEs, fromRLEs) ==
    [b \in DOMAIN toRLEs \cup DOMAIN fromRLEs |->
        IF b \notin DOMAIN fromRLEs THEN toRLEs[b]
        ELSE IF b \in DOMAIN toRLEs THEN Add(toRLEs[b], fromRLEs[b])
        ELSE fromRLEs[b]]

\* MergeFold marking as changed only the blocks the target already had.
MergeFoldMut(p) ==
    LET c == calls[p] IN
    /\ c.pc = "m_fold"
    /\ \E ok \in BOOLEAN :
         IF ok
         THEN /\ store' = DeleteRange(store, c.cur)
              /\ SetCall(p, [c EXCEPT !.pc = "m_next",
                             !.toRLEs = FoldBlocks(c.toRLEs, c.fromRLEs),
                             !.blocksChanged = c.blocksChanged
                                 \cup (DOMAIN c.fromRLEs \cap DOMAIN c.toRLEs),
                             !.deleted = c.deleted \cup {c.cur}])
              /\ UNCHANGED dirty
         ELSE /\ MergeReturn(p, Fault(c), "err")
              /\ UNCHANGED store
    /\ UNCHANGED <<nextLabel, events, dsplit, dorig, dres, treq, tresp>>

\* Lines 1148-1170: fold, then delete fromLabel's key range.
MergeFold(p) ==
    LET c == calls[p] IN
    /\ c.pc = "m_fold"
    /\ \E ok \in BOOLEAN :
         IF ok
         THEN /\ store' = DeleteRange(store, c.cur)
              /\ SetCall(p, [c EXCEPT !.pc = "m_next",
                             !.toRLEs = FoldBlocks(c.toRLEs, c.fromRLEs),
                             !.blocksChanged = c.blocksChanged \cup DOMAIN c.fromRLEs,
                             !.deleted = c.deleted \cup {c.cur}])
              /\ UNCHANGED dirty
         ELSE /\ MergeReturn(p, Fault(c), "err")
              /\ UNCHANGED store
    /\ UNCHANGED <<nextLabel, events, dsplit, dorig, dres, treq, tresp>>

\* MergeNotifyBlock going on to the commit when the publish call failed.
MergeNotifyBlockMut(p) ==
    LET c == calls[p] IN
    /\ c.pc = "m_next"
    /\ c.todo = {}
    /\ \E ok \in BOOLEAN :
         /\ Publish(p, "MergeBlockEvent",
                    DeltaMerge(c.target, c.merged, c.blocksChanged), ok)
         /\ SetCall(p, [(IF ok THEN c ELSE Fault(c)) EXCEPT !.pc = "m_commit"])
         /\ UNCHANGED dirty
    /\ UNCHANGED <<store, nextLabel, dsplit, dorig, dres, treq, tresp>>

\* Lines 1172-1177.
MergeNotifyBlock(p) ==
    LET c == calls[p] IN
    /\ c.pc = "m_next"
    /\ c.todo = {}
    /\ \E ok \in BOOLEAN :
         /\ Publish(p, "MergeBlockEvent",
                    DeltaMerge(c.target, c.merged, c.blocksChanged), ok)
         /\ IF ok THEN SetCall(p, [c EXCEPT !.pc = "m_commit"]) /\ UNCHANGED dirty
            ELSE MergeReturn(p, Fault(c), "err")
    /\ UNCHANGED <<store, nextLabel, dsplit, dorig, dres, treq, tresp>>

\* MergeBatch putting every block of the target's map, changed or not.
MergeBatchMut(c) ==
    LET blks == SortBlocks(DOMAIN c.toRLEs)
    IN  [i \in 1..Len(blks) |-> BatchPut(<<c.target, blks[i]>>, c.toRLEs[blks[i]])]

\* Lines 1182-1189: one Put per changed block.
MergeBatch(c) ==
    LET blks == SortBlocks(c.blocksChanged)
    IN  [i \in 1..Len(blks) |-> BatchPut(<<c.target, blks[i]>>, c.toRLEs[blks[i]])]

\* The puts of a batch for the blocks in queued: what the loop of 1182-1189
\* has queued when MarshalBinary fails for the next block; the loop ranges
\* over a map, so the blocks queued by then are any of the changed ones but
\* the failing one.
QueuedPuts(batch, queued) ==
    SelectSeq(batch, LAMBDA put : put.key[2] \in queued)

\* MergeCommit with a failed Commit that has applied the queued puts.
MergeCommitMut(p) ==
    LET c == calls[p] IN
    /\ c.pc = "m_commit"
    /\ \/ \E ok \in BOOLEAN :
            /\ store' = Commit(store, MergeBatch(c))
            /\ SetCall(p, [c EXCEPT !.pc = "m_replace", !.batch = MergeBatch(c),
                           !.committed = ok, !.fault = ~ok])
            /\ UNCHANGED dirty
       \/ \E queued \in SUBSET c.blocksChanged :
            /\ queued # c.blocksChanged
            /\ MergeReturn(p, [Fault(c) EXCEPT !.batch = QueuedPuts(MergeBatch(c), queued)],
                           "err")
            /\ UNCHANGED store
    /\ UNCHANGED <<nextLabel, events, dsplit, dorig, dres, treq, tresp>>

\* MergeCommit writing back the store as it was at the call, less the deleted
\* labels, with the queued puts applied.
MergeCommitStaleMut(p) ==
    LET c == calls[p]
        kept == {k \in DOMAIN c.pre : k[1] \notin c.deleted}
    IN
    /\ c.pc = "m_commit"
    /\ \/ \E ok \in BOOLEAN :
            /\ store' = IF ok THEN Commit([k \in kept |-> c.pre[k]], MergeBatch(c))
                         ELSE store
            /\ SetCall(p, [c EXCEPT !.pc = "m_replace", !.batch = MergeBatch(c),
                           !.committed = ok, !.fault = ~ok])
            /\ UNCHANGED dirty
       \/ \E queued \in SUBSET c.blocksChanged :
            /\ queued # c.blocksChanged
            /\ MergeReturn(p, [Fault(c) EXCEPT !.batch = QueuedPuts(MergeBatch(c), queued)],
                           "err")
            /\ UNCHANGED store
    /\ UNCHANGED <<nextLabel, events, dsplit, dorig, dres, treq, tresp>>

\* Lines 1179-1192: a failed Commit is logged and the call goes on; a failed
\* MarshalBinary of a changed block's runs (1184-1187) is returned, with the
\* puts of the blocks serialized before it queued in the batch (1188) and
\* never committed.
MergeCommit(p) ==
    LET c == calls[p] IN
    /\ c.pc = "m_commit"
    /\ \/ \E ok \in BOOLEAN :
            /\ store' = IF ok THEN Commit(store, MergeBatch(c)) ELSE store
            /\ SetCall(p, [c EXCEPT !.pc = "m_replace", !.batch = MergeBatch(c),
                           !.committed = ok, !.fault = ~ok])
            /\ UNCHANGED dirty
       \/ \E queued \in SUBSET c.blocksChanged :
            /\ queued # c.blocksChanged
            /\ MergeReturn(p, [Fault(c) EXCEPT !.batch = QueuedPuts(MergeBatch(c), queued)],
                           "err")
            /\ UNCHANGED store
    /\ UNCHANGED <<nextLabel, events, dsplit, dorig, dres, treq, tresp>>

\* MergeNotifyReplace going on to the MergeEnd event when its publish failed.
MergeNotifyReplaceMut(p) ==
    LET c == calls[p] IN
    /\ c.pc = "m_replace"
    /\ \E ok \in BOOLEAN :
         /\ Publish(p, "ChangeSizeEvent",
                    DeltaReplaceSize(c.target, c.toSize, c.added), ok)
         /\ SetCall(p, [c EXCEPT !.pc = "m_end"]) /\ UNCHANGED dirty
    /\ UNCHANGED <<store, nextLabel, dsplit, dorig, dres, treq, tresp>>

\* Lines 1193-1202.
MergeNotifyReplace(p) ==
    LET c == calls[p] IN
    /\ c.pc = "m_replace"
    /\ \E ok \in BOOLEAN :
         /\ Publish(p, "ChangeSizeEvent",
                    DeltaReplaceSize(c.target, c.toSize, c.added), ok)
         /\ IF ok THEN SetCall(p, [c EXCEPT !.pc = "m_end"]) /\ UNCHANGED dirty
            ELSE MergeReturn(p, Fault(c), "err")
    /\ UNCHANGED <<store, nextLabel, dsplit, dorig, dres, treq, tresp>>

\* Lines 1204-1210.
MergeNotifyEnd(p) ==
    LET c == calls[p] IN
    /\ c.pc = "m_end"
    /\ \E ok \in BOOLEAN :
         /\ Publish(p, "MergeEndEvent", DeltaMergeEnd(c.target, c.merged), ok)
         /\ MergeReturn(p, IF ok THEN c ELSE Fault(c), IF ok THEN "ok" ELSE "err")
    /\ UNCHANGED <<store, nextLabel, dsplit, dorig, dres, treq, tresp>>

(***************************************************************************)
(* SplitLabels                                                             *)
(***************************************************************************)
\* Every return of SplitLabels after line 1240 (a panic included): the
\* results are set and the deferred function is still to run.
SplitReturn(p, c, res, ret) ==
    /\ SetCall(p, [c EXCEPT !.pc = "s_defer", !.res = res, !.ret = ret])
    /\ UNCHANGED dirty

\* SplitDeferred releasing the label on the success path only.
SplitDeferredMut(p) ==
    LET c == calls[p] IN
    /\ c.pc = "s_defer"
    /\ dirty' = IF c.res = "ok" THEN Decr(dirty, c.fromLabel) ELSE dirty
    /\ SetCall(p, [c EXCEPT !.pc = "done",
                   !.released = IF c.res = "ok" THEN Incr(c.released, c.fromLabel)
                                ELSE c.released])
    /\ UNCHANGED <<store, nextLabel, events, dsplit, dorig, dres, treq, tresp>>

\* Lines 1238-1240: the deferred Decr, run when SplitLabels returns or panics.
SplitDeferred(p) ==
    LET c == calls[p] IN
    /\ c.pc = "s_defer"
    /\ dirty' = Decr(dirty, c.fromLabel)
    /\ SetCall(p, [c EXCEPT !.pc = "done",
                   !.released = Incr(c.released, c.fromLabel)])
    /\ UNCHANGED <<store, nextLabel, events, dsplit, dorig, dres, treq, tresp>>

\* A return of SplitLabels before the defer of line 1240 is registered.
SplitReturnEarly(p, c, res) ==
    /\ SetCall(p, [c EXCEPT !.pc = "done", !.res = res])
    /\ UNCHANGED dirty

\* The call d.SplitLabels(v, fromLabel, r).
SplitBegin(p, fromLabel, payload) ==
    /\ calls[p].pc = "idle"
    /\ SetCall(p, [calls[p] EXCEPT !.pc = "s_store", !.op = "split",
                   !.fromLabel = fromLabel, !.payload = payload, !.pre = store,
                   !.dirty0 = dirty])
    /\ UNCHANGED <<store, dirty, nextLabel, events, dsplit, dorig, dres, treq, tresp>>

\* Lines 1226-1235.
SplitStore(p) ==
    /\ calls[p].pc = "s_store"
    /\ \E ok \in BOOLEAN :
         IF ok THEN SetCall(p, [calls[p] EXCEPT !.pc = "s_incr"]) /\ UNCHANGED dirty
         ELSE SplitReturnEarly(p, Fault(calls[p]), "err")
    /\ UNCHANGED <<store, nextLabel, events, dsplit, dorig, dres, treq, tresp>>

\* SplitIncr going on without marking fromLabel dirty.
SplitIncrMut(p) ==
    LET c == calls[p] IN
    /\ c.pc = "s_incr"
    /\ SetCall(p, [c EXCEPT !.pc = "s_newlabel"])
    /\ UNCHANGED <<store, dirty, nextLabel, events, dsplit, dorig, dres, treq, tresp>>

\* Lines 1237-1240.
SplitIncr(p) ==
    LET c == calls[p] IN
    /\ c.pc = "s_incr"
    /\ dirty' = Incr(dirty, c.fromLabel)
    /\ SetCall(p, [c EXCEPT !.pc = "s_newlabel", !.marked = Incr(c.marked, c.fromLabel)])
    /\ UNCHANGED <<store, nextLabel, events, dsplit, dorig, dres, treq, tresp>>

\* Lines 1242-1246: d.NewLabel(v), the next label of the version's counter.
SplitNewLabel(p) ==
    LET c == calls[p] IN
    /\ c.pc = "s_newlabel"
    /\ \E ok \in BOOLEAN :
         IF ok
         THEN /\ nextLabel + 1 \in Labels
              /\ nextLabel' = nextLabel + 1
              /\ SetCall(p, [c EXCEPT !.pc = "s_start", !.toLabel = nextLabel + 1])
              /\ UNCHANGED dirty
         ELSE /\ SplitReturn(p, Fault(c), "err", 0)
              /\ UNCHANGED nextLabel
    /\ UNCHANGED <<store, events, dsplit, dorig, dres, treq, tresp>>

\* Lines 1249-1254.
SplitNotifyStart(p) ==
    LET c == calls[p] IN
    /\ c.pc = "s_start"
    /\ \E ok \in BOOLEAN :
         /\ Publish(p, "SplitStartEvent", DeltaSplitStart(c.fromLabel, c.toLabel), ok)
         /\ IF ok THEN SetCall(p, [c EXCEPT !.pc = "s_decode"]) /\ UNCHANGED dirty
            ELSE SplitReturn(p, Fault(c), "err", 0)
    /\ UNCHANGED <<store, nextLabel, dsplit, dorig, dres, treq, tresp>>

\* Lines 1256-1283: decode the payload, count its voxels, partition it; an
\* error of split.Partition (1277-1280) is returned with the new label.
SplitDecode(p) ==
    LET c == calls[p]
        d == DecodePayload(c.payload)
    IN
    /\ c.pc = "s_decode"
    /\ IF d.ok
       THEN \E ok \in BOOLEAN :
              IF ok
              THEN /\ SetCall(p, [c EXCEPT !.pc = "s_label", !.split = d.split,
                                  !.splitSize = Stats(d.split),
                                  !.splitmap = Partition(d.split),
                                  !.splitblks = SortedKeys(Partition(d.split))])
                   /\ UNCHANGED dirty
              ELSE SplitReturn(p, Fault(c), "err", c.toLabel)
       ELSE SplitReturn(p, c, "err", c.toLabel)
    /\ UNCHANGED <<store, nextLabel, events, dsplit, dorig, dres, treq, tresp>>

\* Lines 1285-1290.
SplitNotifyLabel(p) ==
    LET c == calls[p] IN
    /\ c.pc = "s_label"
    /\ \E ok \in BOOLEAN :
         /\ Publish(p, "SplitLabelEvent",
                    DeltaSplit(c.fromLabel, c.toLabel, c.splitmap, c.splitblks), ok)
         /\ IF ok THEN SetCall(p, [c EXCEPT !.pc = "s_write"]) /\ UNCHANGED dirty
            ELSE SplitReturn(p, Fault(c), "err", 0)
    /\ UNCHANGED <<store, nextLabel, dsplit, dorig, dres, treq, tresp>>

\* writeLabelVol, lines 1465-1487: one Put per block of blks.
writeLabelVol(label, blks, brles) ==
    [i \in 1..Len(blks) |-> BatchPut(<<label, blks[i]>>, brles[blks[i]])]

\* SplitWrite committing the removal of the split blocks from fromLabel
\* where the new label's blocks should be committed.
SplitWriteMut(p) ==
    LET c == calls[p] IN
    /\ c.pc = "s_write"
    /\ \E ok \in BOOLEAN :
         IF ok
         THEN /\ store' = Commit(store, [i \in 1..Len(c.splitblks) |->
                                            BatchDelete(<<c.fromLabel, c.splitblks[i]>>)])
              /\ SetCall(p, [c EXCEPT !.pc = "s_scan"])
              /\ UNCHANGED dirty
         ELSE /\ SplitReturn(p, Fault(c), "err", c.toLabel)
              /\ UNCHANGED store
    /\ UNCHANGED <<nextLabel, events, dsplit, dorig, dres, treq, tresp>>

\* Lines 1292-1295.
SplitWrite(p) ==
    LET c == calls[p] IN
    /\ c.pc = "s_write"
    /\ \E ok \in BOOLEAN :
         IF ok
         THEN /\ store' = Commit(store, writeLabelVol(c.toLabel, c.splitblks, c.splitmap))
              /\ SetCall(p, [c EXCEPT !.pc = "s_scan"])
              /\ UNCHANGED dirty
         ELSE /\ SplitReturn(p, Fault(c), "err", c.toLabel)
              /\ UNCHANGED store
    /\ UNCHANGED <<nextLabel, events, dsplit, dorig, dres, treq, tresp>>

\* State of the range scan: pos is the 0-based cursor into splitblks, batch
\* the queued operations, diffed the diffBlock invocations made so far.
ScanState(status, pos, batch, diffed) ==
    [status |-> status, pos |-> pos, batch |-> batch, diffed |-> diffed]

\* Lines 1337-1350: the block found in both the split and the original.
ChunkDiff(c, st, blk, rles) ==
    LET d   == diffBlock(c.splitmap[blk], rles)
        log == Append(st.diffed, [blk |-> blk, orig |-> rles, res |-> d])
        key == <<c.fromLabel, blk>>
    IN  IF d.status # "ok" THEN ScanState(d.status, st.pos, st.batch, log)
        ELSE IF d.dup THEN ScanState("ok", st.pos, Append(st.batch, BatchDelete(key)), log)
        ELSE ScanState("ok", st.pos, Append(st.batch, BatchPut(key, d.modified)), log)

\* ChunkProcessor queuing a delete for a block of fromLabel that lies before
\* the split block under the cursor.
ChunkProcessorMut(c, st, blk, rles) ==
    IF st.pos >= Len(c.splitblks)
    THEN ScanState("panic", st.pos, st.batch, st.diffed)
    ELSE LET splitblk == c.splitblks[st.pos + 1]
         IN  IF BlkLess(blk, splitblk)
             THEN ScanState("ok", st.pos,
                            Append(st.batch, BatchDelete(<<c.fromLabel, blk>>)), st.diffed)
             ELSE IF blk = splitblk THEN ChunkDiff(c, st, blk, rles)
             ELSE ScanState("ok", st.pos + 1, st.batch, st.diffed)

\* The ChunkProcessor f, lines 1322-1355, on one stored block of fromLabel.
ChunkProcessor(c, st, blk, rles) ==
    IF st.pos >= Len(c.splitblks)
    THEN ScanState("panic", st.pos, st.batch, st.diffed)
    ELSE LET splitblk == c.splitblks[st.pos + 1]
         IN  IF BlkLess(blk, splitblk) THEN st
             ELSE IF blk = splitblk THEN ChunkDiff(c, st, blk, rles)
             ELSE ScanState("ok", st.pos + 1, st.batch, st.diffed)

\* Lines 1297-1309: fromLabel's stored blocks within the Z range of the split,
\* in key order.
ScanRange(st, c) ==
    LET zmin == c.splitblks[1][1]
        zmax == c.splitblks[Len(c.splitblks)][1]
    IN  SortBlocks({b \in LabelBlocks(st, c.fromLabel) : zmin <= b[1] /\ b[1] <= zmax})

\* store.ProcessRange: f on every key of the range, until f fails.
RECURSIVE ProcessRange(_, _, _, _)
ProcessRange(st, c, blks, scan) ==
    IF blks = <<>> \/ scan.status # "ok" THEN scan
    ELSE ProcessRange(st, c, Tail(blks),
                      ChunkProcessor(c, scan, Head(blks), st[<<c.fromLabel, Head(blks)>>]))

\* Lines 1297-1358.
SplitScan(p) ==
    LET c == calls[p] IN
    /\ c.pc = "s_scan"
    /\ IF Len(c.splitblks) = 0
       THEN SplitReturn(p, c, "panic", 0)
       ELSE \E ok \in BOOLEAN :
              IF ok
              THEN LET scan == ProcessRange(store, c, ScanRange(store, c),
                                            ScanState("ok", 0, <<>>, <<>>))
                       c2   == [c EXCEPT !.batch = scan.batch, !.diffed = scan.diffed]
                   IN  IF scan.status = "ok"
                       THEN SetCall(p, [c2 EXCEPT !.pc = "s_commit"]) /\ UNCHANGED dirty
                       ELSE IF scan.status = "err"
                       THEN SplitReturn(p, c2, "err", c.toLabel)
                       ELSE SplitReturn(p, c2, "panic", 0)
              ELSE SplitReturn(p, Fault(c), "err", c.toLabel)
    /\ UNCHANGED <<store, nextLabel, events, dsplit, dorig, dres, treq, tresp>>

\* Lines 1360-1362: a failed Commit is logged and the call goes on.
SplitCommit(p) ==
    LET c == calls[p] IN
    /\ c.pc = "s_commit"
    /\ \E ok \in BOOLEAN :
         /\ store' = IF ok THEN Commit(store, c.batch) ELSE store
         /\ SetCall(p, [c EXCEPT !.pc = "s_new", !.committed = ok, !.fault = ~ok])
    /\ UNCHANGED <<dirty, nextLabel, events, dsplit, dorig, dres, treq, tresp>>

\* SplitNotifyNew publishing the size change of fromLabel first.
SplitNotifyNewMut(p) ==
    LET c == calls[p] IN
    /\ c.pc = "s_new"
    /\ \E ok \in BOOLEAN :
         /\ Publish(p, "ChangeSizeEvent", DeltaModSize(c.fromLabel, c.splitSize), ok)
         /\ IF ok THEN SetCall(p, [c EXCEPT !.pc = "s_mod"]) /\ UNCHANGED dirty
            ELSE SplitReturn(p, Fault(c), "err", 0)
    /\ UNCHANGED <<store, nextLabel, dsplit, dorig, dres, treq, tresp>>

\* Lines 1364-1373.
SplitNotifyNew(p) ==
    LET c == calls[p] IN
    /\ c.pc = "s_new"
    /\ \E ok \in BOOLEAN :
         /\ Publish(p, "ChangeSizeEvent", DeltaNewSize(c.toLabel, c.splitSize), ok)
         /\ IF ok THEN SetCall(p, [c EXCEPT !.pc = "s_mod"]) /\ UNCHANGED dirty
            ELSE SplitReturn(p, Fault(c), "err", 0)
    /\ UNCHANGED <<store, nextLabel, dsplit, dorig, dres, treq, tresp>>

\* Lines 1375-1383.
SplitNotifyMod(p) ==
    LET c == calls[p] IN
    /\ c.pc = "s_mod"
    /\ \E ok \in BOOLEAN :
         /\ Publish(p, "ChangeSizeEvent", DeltaModSize(c.fromLabel, c.splitSize), ok)
         /\ IF ok THEN SetCall(p, [c EXCEPT !.pc = "s_end"]) /\ UNCHANGED dirty
            ELSE SplitReturn(p, Fault(c), "err", 0)
    /\ UNCHANGED <<store, nextLabel, dsplit, dorig, dres, treq, tresp>>

\* Lines 1385-1392.
SplitNotifyEnd(p) ==
    LET c == calls[p] IN
    /\ c.pc = "s_end"
    /\ \E ok \in BOOLEAN :
         /\ Publish(p, "SplitEndEvent", DeltaSplitEnd(c.fromLabel, c.toLabel), ok)
         /\ IF ok THEN SplitReturn(p, c, "ok", c.toLabel)
            ELSE SplitReturn(p, Fault(c), "err", 0)
    /\ UNCHANGED <<store, nextLabel, dsplit, dorig, dres, treq, tresp>>

(***************************************************************************)
(* Tile requests: ServeTile, GetGoogleSpec, serveTile                      *)
(***************************************************************************)
\* geom.VolumeSize of the scaled volume the TileMap has for scaling 0, every
\* plane; the TileMap has no entry for any other scaling.
VolumeSize == <<3, 3, 2>>

TileScales == {0}

Planes == {"xy", "xz", "yz"}

\* http.StatusOK.
StatusOK == 200

\* What the upstream does with the request of serveTile: get tells whether
\* http.Get returns a response (no error), status is resp.StatusCode of that
\* response, and full tells whether its body holds the data of the tile asked
\* for (the body is empty otherwise).
Upstream(get, status, full) == [get |-> get, status |-> status, full |-> full]

\* The calls of serveTile that can return an error, one of which a request
\* has failing ("" for none): GetURL (a format string whose compression level
\* is not a number, 568-571), dvid.SetImageHeader, ioutil.ReadAll,
\* resp.Body.Read, w.Write and dvid.WriteImageHttp.
TileFaults ==
    {"", "GetURL", "SetImageHeader", "ReadAll", "Read", "Write", "WriteImageHttp"}

\* A tile request: plane, scaling and tile coordinate of the URL, the value
\* of the noblanks query option ("" when absent), what the upstream does,
\* and the failing call of serveTile.
TileRequest(plane, scale, coord, noblanks, upstream, fail) ==
    [plane |-> plane, scale |-> scale, coord |-> coord, noblanks |-> noblanks,
     upstream |-> upstream, fail |-> fail]

NoTileRequest == TileRequest("none", 0, <<0, 0, 0>>, "", Upstream(TRUE, StatusOK, TRUE), "")

\* What the client gets and what ServeTile returns: kind is "blank" (the
\* all-zero image of getBlankTileImage), "notfound" (http.NotFound),
\* "badrequest", "proxy" (the upstream bytes), "padded" (the upstream bytes
\* padded by padTile), "error" (an error returned, nothing written) or
\* "panic"; err tells whether an error is returned; size is the width and
\* height in pixels of the image written for a "blank" response (<<0, 0>>
\* when no image is built); body holds the pixel bytes of that image or the
\* bytes written for a "proxy" or "padded" response.
TileResponse(kind, err, size, body) ==
    [kind |-> kind, err |-> err, size |-> size, body |-> body]

NoTileResponse == TileResponse("none", FALSE, <<0, 0>>, <<>>)

\* An error return of serveTile or ServeTile.
TileError(kind) == TileResponse(kind, TRUE, <<0, 0>>, <<>>)

\* ServeTile, lines 955-973: the voxel offset of a tile coordinate.
TileOffset(plane, coord, tilesize) ==
    IF plane = "xy" THEN <<coord[1] * tilesize, coord[2] * tilesize, coord[3]>>
    ELSE IF plane = "xz" THEN <<coord[1] * tilesize, coord[2], coord[3] * tilesize>>
    ELSE <<coord[1], coord[2] * tilesize, coord[3] * tilesize>>

\* dvid.GetPoint3dFrom2d(plane, size, 1): the 3d size of a 2d tile.
GetPoint3dFrom2d(plane, size) ==
    IF plane = "xy" THEN <<size, size, 1>>
    ELSE IF plane = "xz" THEN <<size, 1, size>>
    ELSE <<1, size, size>>

\* offset.Expand2d(plane, size): the offset moved by the size in the plane.
Expand2d(offset, plane, size) ==
    IF plane = "xy" THEN <<offset[1] + size, offset[2] + size, offset[3]>>
    ELSE IF plane = "xz" THEN <<offset[1] + size, offset[2], offset[3] + size>>
    ELSE <<offset[1], offset[2] + size, offset[3] + size>>

\* geom.ChannelType of that scaled volume.
ChannelType == "float"

\* Lines 517-527: the bytes of one voxel by channel type (0: unknown type).
BytesPerVoxel(channelType) ==
    IF channelType = "uint8" THEN 1
    ELSE IF channelType = "float" THEN 4
    ELSE IF channelType = "uint64" THEN 8
    ELSE 0

GoogleTileSpec(found, offset, size, sizeWant, edge, outside, bytesPerVoxel) ==
    [found |-> found, offset |-> offset, size |-> size, sizeWant |-> sizeWant,
     edge |-> edge, outside |-> outside, bytesPerVoxel |-> bytesPerVoxel]

\* d.GetGoogleSpec(scaling, plane, offset, size), lines 492-548.
GetGoogleSpec(scaling, plane, offset, size) ==
    LET sizeWant == GetPoint3dFrom2d(plane, size)
        maxpt    == Expand2d(offset, plane, size)
        bpv      == BytesPerVoxel(ChannelType)
    IN  IF scaling \notin TileScales \/ bpv = 0
        THEN GoogleTileSpec(FALSE, offset, <<0, 0, 0>>, sizeWant, FALSE, FALSE, bpv)
        ELSE IF \E i \in 1..3 : offset[i] >= VolumeSize[i]
        THEN GoogleTileSpec(TRUE, offset, <<0, 0, 0>>, sizeWant, FALSE, TRUE, bpv)
        ELSE GoogleTileSpec(TRUE, offset,
                 [i \in 1..3 |-> IF maxpt[i] > VolumeSize[i]
                                 THEN VolumeSize[i] - offset[i] ELSE sizeWant[i]],
                 sizeWant,
                 \E i \in 1..3 : maxpt[i] > VolumeSize[i],
                 FALSE, bpv)

\* The data of the tile the upstream holds: the voxels of the size asked for
\* in the URL (GetURL, line 558), bytesPerVoxel bytes each, row by row; byte
\* i has the value i, so no byte received is zero.
UpstreamData(tile) ==
    [i \in 1..(tile.size[1] * tile.size[2] * tile.size[3] * tile.bytesPerVoxel) |-> i]

\* resp.Body of the upstream response: the data of the tile, or nothing.
UpstreamBody(tile, upstream) ==
    IF upstream.full THEN UpstreamData(tile) ELSE <<>>

PadResult(status, out) == [status |-> status, out |-> out]

\* gts.padTile(data), lines 584-603.  The loop copies, for each of the
\* gts.size[1] input rows y in turn, inRowBytes bytes to out starting at
\* y * outRowBytes, so a byte of out holds what the last row covering it
\* wrote (an input row longer than an output row runs into the next output
\* row) and zero when no row covers it; a slice expression that ends beyond
\* out panics.  Byte i of out is counted from 0 in CoveringRows.
padTile(gts, data) ==
    LET inRowBytes  == gts.size[1] * gts.bytesPerVoxel
        outRowBytes == gts.sizeWant[1] * gts.bytesPerVoxel
        outBytes    == outRowBytes * gts.sizeWant[2]
        rows        == 0..(gts.size[2] - 1)
        CoveringRows(i) ==
            {y \in rows : y * outRowBytes <= i /\ i < y * outRowBytes + inRowBytes}
        LastRow(i) == CHOOSE y \in CoveringRows(i) : \A z \in CoveringRows(i) : z <= y
    IN  IF gts.size[1] * gts.size[2] * gts.bytesPerVoxel # Len(data)
        THEN PadResult("err", <<>>)
        ELSE IF \E y \in rows : y * outRowBytes + inRowBytes > outBytes
        THEN PadResult("panic", <<>>)
        ELSE PadResult("ok",
                 [i \in 1..outBytes |->
                     IF CoveringRows(i - 1) = {} THEN 0
                     ELSE LET y == LastRow(i - 1)
                          IN  data[y * inRowBytes + (i - 1 - y * outRowBytes) + 1]])

\* The image d.getBlankTileImage(tile) builds, lines 747-759: sizeWant[0] by
\* sizeWant[1] pixels of bytesPerVoxel zero bytes, whatever the plane.
BlankImage(size, data) == [size |-> size, data |-> data]

getBlankTileImage(tile) ==
    LET numBytes == tile.sizeWant[1] * tile.sizeWant[2] * tile.bytesPerVoxel
    IN  BlankImage(<<tile.sizeWant[1], tile.sizeWant[2]>>, [i \in 1..numBytes |-> 0])

\* d.serveTile(w, r, tile, formatStr, noblanks), lines 761-842.  The body of
\* a response the model has is read by the first resp.Body.Read (it is far
\* shorter than the buffer of 32 KB).
serveTile(tile, noblanks, upstream, fail) ==
    IF tile.outside
    THEN IF noblanks THEN TileError("notfound")
         ELSE IF fail = "WriteImageHttp" THEN TileError("error")
         ELSE LET img == getBlankTileImage(tile)
              IN  TileResponse("blank", FALSE, img.size, img.data)
    ELSE IF fail = "GetURL" THEN TileError("error")
    ELSE IF ~upstream.get THEN TileError("error")
    ELSE IF fail = "SetImageHeader" THEN TileError("error")
    ELSE IF tile.edge
    THEN IF fail = "ReadAll" THEN TileError("error")
         ELSE LET padded == padTile(tile, UpstreamBody(tile, upstream))
              IN  IF padded.status = "err" THEN TileError("error")
                  ELSE IF padded.status = "panic"
                  THEN TileResponse("panic", FALSE, <<0, 0>>, <<>>)
                  ELSE IF fail = "Write" THEN TileError("error")
                  ELSE TileResponse("padded", FALSE, <<0, 0>>, padded.out)
    ELSE IF upstream.status # StatusOK THEN TileError("error")
    ELSE IF fail \in {"Read", "Write"} THEN TileError("error")
    ELSE TileResponse("proxy", FALSE, <<0, 0>>, UpstreamBody(tile, upstream))

\* d.ServeTile(w, r, parts), lines 900-982.
ServeTile(req) ==
    LET noblanks == (req.noblanks = "true")
        offset   == TileOffset(req.plane, req.coord, TileSize)
        tile     == GetGoogleSpec(req.scale, req.plane, offset, TileSize)
    IN  IF ~tile.found THEN TileError("badrequest")
        ELSE serveTile(tile, noblanks, req.upstream, req.fail)

\* The upstream status codes tried.
TileStatuses == {StatusOK, 404}

\* The tile requests tried.
TileRequests ==
    {TileRequest(pl, sc, <<x, y, z>>, nb, Upstream(get, st, full), fail) :
        pl \in Planes, sc \in {0, 1},
        x \in 0..MaxTileCoord, y \in 0..MaxTileCoord, z \in 0..MaxTileCoord,
        nb \in {"", "true", "false"},
        get \in BOOLEAN, st \in TileStatuses, full \in BOOLEAN, fail \in TileFaults}

(***************************************************************************)
(* Initial states and inputs                                               *)
(***************************************************************************)
\* Labels present before the call; d.NewLabel hands out the labels after them.
InitLabels == {1, 2, 3}

\* The runs the initial label volume is made of: two adjacent runs in block
\* <<0,0,0>>, one run in <<0,0,1>>, one in <<1,0,0>> and one in <<0,1,0>>.
CandRuns ==
    <<RLE(0, 0, 0, 2), RLE(2, 0, 0, BlockX - 2), RLE(BlockX, 0, 0, 3),
      RLE(1, 0, 1, 3), RLE(0, 1, 0, 1)>>

\* The labels each of these runs may carry at first (0: no label).
CandOwners == <<{1, 2}, {1, 2, 3}, {0, 1, 3}, {1, 3}, {0, 1, 2}>>

InitOwners ==
    {o \in [DOMAIN CandRuns -> 0..3] : \A i \in DOMAIN CandRuns : o[i] \in CandOwners[i]}

\* The store holding, for every label, the maximal runs of its voxels by block.
StoreOf(o) ==
    LET vox(l)  == UNION {RunVoxels(CandRuns[i]) : i \in {j \in DOMAIN CandRuns : o[j] = l}}
        keys    == {<<l, BlockOf(v)>> : l \in InitLabels, v \in UNION {vox(l2) : l2 \in InitLabels}}
        present == {k \in keys : \E v \in vox(k[1]) : BlockOf(v) = k[2]}
    IN  [k \in present |-> RunsOf({v \in vox(k[1]) : BlockOf(v) = k[2]})]

InitStores == {StoreOf(o) : o \in InitOwners}

\* Merge operations tried: any target, one or two merged-from labels.
MergeOps ==
    {m \in [target : InitLabels, merged : SUBSET InitLabels] :
        Cardinality(m.merged) \in {1, 2}}

\* Run lists of the split payloads tried.
SplitSpans ==
    { <<RLE(0, 0, 0, 2)>>,
      <<RLE(0, 0, 0, BlockX)>>,
      <<RLE(2, 0, 1, 1)>>,
      <<RLE(1, 0, 1, 3)>>,
      <<RLE(2, 0, 0, BlockX)>>,
      <<RLE(0, 0, 0, 2), RLE(1, 0, 1, 3)>>,
      <<RLE(BlockX, 0, 0, 1)>>,
      <<RLE(0, 1, 0, 1)>>,
      <<>> }

\* Well-formed payloads of these run lists, and malformed ones: a wrong
\* encoding tag, a short header, a missing run count, a missing run record.
SplitPayloads ==
    {Payload(EncodingBinary, HeaderLen, Len(s), s) : s \in SplitSpans}
    \cup {Payload(EncodingBinary + 1, HeaderLen, 1, <<RLE(0, 0, 0, 2)>>),
          Payload(EncodingBinary, HeaderLen - 1, -1, <<>>),
          Payload(EncodingBinary, HeaderLen, -1, <<>>),
          Payload(EncodingBinary, HeaderLen, 2, <<RLE(0, 0, 0, 2)>>)}

DiffNone == DiffResult("none", <<>>, FALSE)

Init ==
    /\ store \in InitStores
    /\ dirty = [l \in Labels |-> 0]
    /\ nextLabel = 3
    /\ events = <<>>
    /\ calls = [p \in Procs |-> IdleCall]
    /\ dsplit = <<>>
    /\ dorig = <<>>
    /\ dres = DiffNone
    /\ treq = NoTileRequest
    /\ tresp = NoTileResponse

\* One goroutine makes one call and runs it to its return.
Next ==
    \E p \in {1} :
        \/ \E m \in MergeOps : MergeBegin(p, m.target, m.merged)
        \/ MergeStore(p)
        \/ MergeNotifyStart(p)
        \/ MergeAddDirty(p)
        \/ MergeReadTarget(p)
        \/ MergeReadFrom(p)
        \/ MergeNotifyDelete(p)
        \/ MergeFold(p)
        \/ MergeNotifyBlock(p)
        \/ MergeCommit(p)
        \/ MergeNotifyReplace(p)
        \/ MergeNotifyEnd(p)
        \/ MergeDeferred(p)
        \/ \E l \in InitLabels, pl \in SplitPayloads : SplitBegin(p, l, pl)
        \/ SplitStore(p)
        \/ SplitIncr(p)
        \/ SplitNewLabel(p)
        \/ SplitNotifyStart(p)
        \/ SplitDecode(p)
        \/ SplitNotifyLabel(p)
        \/ SplitWrite(p)
        \/ SplitScan(p)
        \/ SplitCommit(p)
        \/ SplitNotifyNew(p)
        \/ SplitNotifyMod(p)
        \/ SplitNotifyEnd(p)
        \/ SplitDeferred(p)

Spec == Init /\ [][Next]_vars

(***************************************************************************)
(* diffBlock on bounded run lists                                          *)
(***************************************************************************)
DRuns == {RLE(x, y, 0, n) : x \in 0..(DMaxX - 1), y \in 0..1, n \in 1..DMaxX} 

DRunsIn == {r \in DRuns : r.x + r.n <= DMaxX}

Disjoint(S) == \A a \in S, b \in S : a # b => RunVoxels(a) \cap RunVoxels(b) = {}

\* No two runs of S touch or overlap.
Separate(S) ==
    \A a \in S, b \in S :
        a # b => /\ RunVoxels(a) \cap RunVoxels(b) = {}
                 /\ ~(a.y = b.y /\ (a.x + a.n = b.x \/ b.x + b.n = a.x))

RECURSIVE SeqOfSet(_)
SeqOfSet(S) ==
    IF S = {} THEN <<>>
    ELSE LET r == CHOOSE a \in S : \A b \in S \ {a} : RLELess(a, b)
         IN  <<r>> \o SeqOfSet(S \ {r})

SmallSets == {S \in SUBSET DRunsIn : Cardinality(S) <= DMaxRuns}

\* Original run lists: sorted, maximal runs.
DiffOrigs == {SeqOfSet(S) : S \in {T \in SmallSets : Separate(T)}}

\* Split run lists: disjoint runs, in ascending or descending order.
DiffSplits ==
    LET sorted == {SeqOfSet(S) : S \in {T \in SmallSets : Disjoint(T)}}
    IN  sorted \cup {Reverse(s) : s \in sorted}

DiffInit ==
    /\ store = <<>>
    /\ dirty = [l \in Labels |-> 0]
    /\ nextLabel = 3
    /\ events = <<>>
    /\ calls = [p \in Procs |-> IdleCall]
    /\ dsplit \in DiffSplits
    /\ dorig \in DiffOrigs
    /\ dres = DiffNone
    /\ treq = NoTileRequest
    /\ tresp = NoTileResponse

\* The call d.diffBlock(dsplit, dorig).
DiffApply ==
    /\ dres = DiffNone
    /\ dres' = diffBlock(dsplit, dorig)
    /\ UNCHANGED <<store, dirty, nextLabel, events, calls, dsplit, dorig, treq, tresp>>

DiffNext == DiffApply

DiffSpec == DiffInit /\ [][DiffNext]_vars

(***************************************************************************)
(* Two goroutines, each making one call, interleaved step by step          *)
(***************************************************************************)
\* The stores the concurrent calls start from.
ConcStores == {StoreOf(<<1, 2, 3, 3, 1>>)}

\* The merges goroutine p may call.
ConcMergeOps(p) ==
    IF p = 1 THEN {[target |-> 1, merged |-> {2}]}
    ELSE {[target |-> 1, merged |-> {3}]}

\* The splits goroutine p may call: fromLabel and payload.
ConcSplitOps(p) ==
    IF p = 1
    THEN {[fromLabel |-> 1, payload |-> Payload(EncodingBinary, HeaderLen, 1, <<RLE(0, 0, 0, 2)>>)]}
    ELSE {[fromLabel |-> 1, payload |-> Payload(EncodingBinary, HeaderLen, 1, <<RLE(1, 0, 1, 3)>>)]}

ConcInit ==
    /\ store \in ConcStores
    /\ dirty = [l \in Labels |-> 0]
    /\ nextLabel = 3
    /\ events = <<>>
    /\ calls = [p \in Procs |-> IdleCall]
    /\ dsplit = <<>>
    /\ dorig = <<>>
    /\ dres = DiffNone
    /\ treq = NoTileRequest
    /\ tresp = NoTileResponse

\* The next step of the call goroutine p is in.
StepOf(p) ==
    \/ MergeStore(p)
    \/ MergeNotifyStart(p)
    \/ MergeAddDirty(p)
    \/ MergeReadTarget(p)
    \/ MergeReadFrom(p)
    \/ MergeNotifyDelete(p)
    \/ MergeFold(p)
    \/ MergeNotifyBlock(p)
    \/ MergeCommit(p)
    \/ MergeNotifyReplace(p)
    \/ MergeNotifyEnd(p)
    \/ MergeDeferred(p)
    \/ SplitStore(p)
    \/ SplitIncr(p)
    \/ SplitNewLabel(p)
    \/ SplitNotifyStart(p)
    \/ SplitDecode(p)
    \/ SplitNotifyLabel(p)
    \/ SplitWrite(p)
    \/ SplitScan(p)
    \/ SplitCommit(p)
    \/ SplitNotifyNew(p)
    \/ SplitNotifyMod(p)
    \/ SplitNotifyEnd(p)
    \/ SplitDeferred(p)

ConcNext ==
    \E p \in Procs :
        \/ \E m \in ConcMergeOps(p) : MergeBegin(p, m.target, m.merged)
        \/ \E o \in ConcSplitOps(p) : SplitBegin(p, o.fromLabel, o.payload)
        \/ MergeStore(p)
        \/ MergeNotifyStart(p)
        \/ MergeAddDirty(p)
        \/ MergeReadTarget(p)
        \/ MergeReadFrom(p)
        \/ MergeNotifyDelete(p)
        \/ MergeFold(p)
        \/ MergeNotifyBlock(p)
        \/ MergeCommit(p)
        \/ MergeNotifyReplace(p)
        \/ MergeNotifyEnd(p)
        \/ MergeDeferred(p)
        \/ SplitStore(p)
        \/ SplitIncr(p)
        \/ SplitNewLabel(p)
        \/ SplitNotifyStart(p)
        \/ SplitDecode(p)
        \/ SplitNotifyLabel(p)
        \/ SplitWrite(p)
        \/ SplitScan(p)
        \/ SplitCommit(p)
        \/ SplitNotifyNew(p)
        \/ SplitNotifyMod(p)
        \/ SplitNotifyEnd(p)
        \/ SplitDeferred(p)

ConcSpec == ConcInit /\ [][ConcNext]_vars

(***************************************************************************)
(* Two goroutines merging disjoint sets of labels                          *)
(***************************************************************************)
DisjLabels == 1..4

\* The store the two merges start from: labels 1 and 2 share block <<0,0,0>>
\* and label 2 has block <<0,1,0>> to itself, labels 3 and 4 have a block each.
DisjStore ==
    LET o == <<1, 2, 3, 4, 2>>
        vox(l)  == UNION {RunVoxels(CandRuns[i]) : i \in {j \in DOMAIN CandRuns : o[j] = l}}
        keys    == {<<l, BlockOf(v)>> : l \in DisjLabels, v \in UNION {vox(l2) : l2 \in DisjLabels}}
        present == {k \in keys : \E v \in vox(k[1]) : BlockOf(v) = k[2]}
    IN  [k \in present |-> RunsOf({v \in vox(k[1]) : BlockOf(v) = k[2]})]

\* The merges goroutine p may call: goroutine 1 among labels 1 and 2,
\* goroutine 2 among labels 3 and 4.
DisjMergeOps(p) ==
    IF p = 1
    THEN {[target |-> 1, merged |-> {2}], [target |-> 2, merged |-> {1}]}
    ELSE {[target |-> 3, merged |-> {4}], [target |-> 4, merged |-> {3}]}

DisjInit ==
    /\ store = DisjStore
    /\ dirty = [l \in Labels |-> 0]
    /\ nextLabel = 4
    /\ events = <<>>
    /\ calls = [p \in Procs |-> IdleCall]
    /\ dsplit = <<>>
    /\ dorig = <<>>
    /\ dres = DiffNone
    /\ treq = NoTileRequest
    /\ tresp = NoTileResponse

DisjNext ==
    \E p \in Procs :
        \/ \E m \in DisjMergeOps(p) : MergeBegin(p, m.target, m.merged)
        \/ MergeStore(p)
        \/ MergeNotifyStart(p)
        \/ MergeAddDirty(p)
        \/ MergeReadTarget(p)
        \/ MergeReadFrom(p)
        \/ MergeNotifyDelete(p)
        \/ MergeFold(p)
        \/ MergeNotifyBlock(p)
        \/ MergeCommit(p)
        \/ MergeNotifyReplace(p)
        \/ MergeNotifyEnd(p)
        \/ MergeDeferred(p)

DisjSpec == DisjInit /\ [][DisjNext]_vars

(***************************************************************************)
(* Two goroutines merging different labels into one target                 *)
(***************************************************************************)
\* The stores the two merges start from: the merged-from labels 2 and 3 each
\* hold a run of block <<0,0,0>>; the target, label 1, holds a block of its
\* own, label 3 another one, and the run of block <<0,1,0>> is the target's,
\* label 2's or nobody's.
SameStores == {StoreOf(<<2, 3, 1, 3, o>>) : o \in {0, 1, 2}}

\* The merge goroutine p may call: label 2 or label 3 into the target 1.
SameMergeOps(p) ==
    IF p = 1 THEN {[target |-> 1, merged |-> {2}]}
    ELSE {[target |-> 1, merged |-> {3}]}

SameInit ==
    /\ store \in SameStores
    /\ dirty = [l \in Labels |-> 0]
    /\ nextLabel = 3
    /\ events = <<>>
    /\ calls = [p \in Procs |-> IdleCall]
    /\ dsplit = <<>>
    /\ dorig = <<>>
    /\ dres = DiffNone
    /\ treq = NoTileRequest
    /\ tresp = NoTileResponse

SameNext ==
    \E p \in Procs :
        \/ \E m \in SameMergeOps(p) : MergeBegin(p, m.target, m.merged)
        \/ MergeStore(p)
        \/ MergeNotifyStart(p)
        \/ MergeAddDirty(p)
        \/ MergeReadTarget(p)
        \/ MergeReadFrom(p)
        \/ MergeNotifyDelete(p)
        \/ MergeFold(p)
        \/ MergeNotifyBlock(p)
        \/ MergeCommit(p)
        \/ MergeNotifyReplace(p)
        \/ MergeNotifyEnd(p)
        \/ MergeDeferred(p)

SameTargetSpec == SameInit /\ [][SameNext]_vars

(***************************************************************************)
(* One tile request                                                        *)
(***************************************************************************)
TileInit ==
    /\ store = <<>>
    /\ dirty = [l \in Labels |-> 0]
    /\ nextLabel = 3
    /\ events = <<>>
    /\ calls = [p \in Procs |-> IdleCall]
    /\ dsplit = <<>>
    /\ dorig = <<>>
    /\ dres = DiffNone
    /\ treq \in TileRequests
    /\ tresp = NoTileResponse

\* The call d.ServeTile for the request treq.
TileServe ==
    /\ tresp = NoTileResponse
    /\ treq # NoTileRequest
    /\ tresp' = ServeTile(treq)
    /\ UNCHANGED <<store, dirty, nextLabel, events, calls, dsplit, dorig, dres, treq>>

TileNext == TileServe

TileServeSpec == TileInit /\ [][TileNext]_vars

(***************************************************************************)
(* Properties                                                              *)
(***************************************************************************)
\* The publish calls goroutine p has made, in order.
EventsOf(p) == SelectSeq(events, LAMBDA e : e.proc = p)

Done(p, op) == calls[p].pc = "done" /\ calls[p].op = op

\* The call c has executed a return statement (or panicked): its results are
\* set; its deferred function has run or is about to.
Returned(c) == c.pc \in {"m_defer", "s_defer", "done"}

\* The position in EventsOf(p) of each step of a merge of k labels.
MergeOrder(c, es) ==
    LET k == Cardinality(c.merged) IN
    /\ Len(es) <= k + 4
    /\ \A i \in 1..Len(es) :
         /\ i > 1 => es[i - 1].ok
         /\ i = 1 => /\ es[i].event = "MergeStartEvent"
                     /\ es[i].msg = DeltaMergeStart(c.target, c.merged)
         /\ (2 <= i /\ i <= k + 1) =>
                     /\ es[i].event = "ChangeSizeEvent"
                     /\ es[i].msg.type = "DeltaDeleteSize"
                     /\ es[i].msg.label \in c.merged
                     /\ \A j \in 2..(i - 1) : es[j].msg.label # es[i].msg.label
         /\ i = k + 2 => /\ es[i].event = "MergeBlockEvent"
                         /\ es[i].msg.type = "DeltaMerge"
         /\ i = k + 3 => /\ es[i].event = "ChangeSizeEvent"
                         /\ es[i].msg.type = "DeltaReplaceSize"
                         /\ es[i].msg.label = c.target
         /\ i = k + 4 => /\ es[i].event = "MergeEndEvent"
                         /\ es[i].msg = DeltaMergeEnd(c.target, c.merged)

\* C1: at every point of every merge, failed ones included, the messages
\* published so far are a prefix of MergeStart, one ChangeSize(delete) per
\* merged-from label, MergeBlock, ChangeSize(replace) of the target, MergeEnd,
\* and each was published only after the one before it was delivered.
C1_MergeEventOrder ==
    \A p \in Procs : calls[p].op = "merge" => MergeOrder(calls[p], EventsOf(p))

\* A merge of two labels that published all its messages and returned success.
C1_Witness ==
    /\ Done(1, "merge") /\ calls[1].res = "ok"
    /\ Cardinality(calls[1].merged) = 2
    /\ Len(EventsOf(1)) = 6

SplitOrder(c, es) ==
    /\ Len(es) <= 5
    /\ \A i \in 1..Len(es) :
         /\ i > 1 => es[i - 1].ok
         /\ i = 1 => /\ es[i].event = "SplitStartEvent"
                     /\ es[i].msg = DeltaSplitStart(c.fromLabel, c.toLabel)
         /\ i = 2 => /\ es[i].event = "SplitLabelEvent"
                     /\ es[i].msg = DeltaSplit(c.fromLabel, c.toLabel,
                                               c.splitmap, c.splitblks)
         /\ i = 3 => /\ es[i].event = "ChangeSizeEvent"
                     /\ es[i].msg.type = "DeltaNewSize"
                     /\ es[i].msg.label = c.toLabel
         /\ i = 4 => /\ es[i].event = "ChangeSizeEvent"
                     /\ es[i].msg.type = "DeltaModSize"
                     /\ es[i].msg.label = c.fromLabel
         /\ i = 5 => /\ es[i].event = "SplitEndEvent"
                     /\ es[i].msg = DeltaSplitEnd(c.fromLabel, c.toLabel)

\* C2: at every point of every split, failed ones included, the messages
\* published so far are a prefix of SplitStart, SplitLabel (with the split map
\* and its sorted blocks), ChangeSize(new) of the new label, ChangeSize(modify)
\* of fromLabel, SplitEnd, each published only after the one before it was
\* delivered.
C2_SplitEventOrder ==
    \A p \in Procs : calls[p].op = "split" => SplitOrder(calls[p], EventsOf(p))

\* A split that published all five messages and returned the new label.
C2_Witness ==
    /\ Done(1, "split") /\ calls[1].res = "ok" /\ calls[1].ret = calls[1].toLabel
    /\ Len(EventsOf(1)) = 5
    /\ calls[1].splitblks # <<>>

\* C3: when a merge or split has returned, by whatever path, the registry
\* holds the counts it held at the call, and the call has released exactly
\* the labels it marked, as often as it marked them.
C3_DirtySymmetric ==
    \A p \in Procs :
        calls[p].pc = "done" =>
            /\ dirty = calls[p].dirty0
            /\ calls[p].released = calls[p].marked

\* A split that marked fromLabel and returned the differencer's error.
C3_Witness ==
    /\ Done(1, "split") /\ calls[1].res = "err"
    /\ calls[1].marked[calls[1].fromLabel] = 1
    /\ calls[1].diffed # <<>>
    /\ calls[1].diffed[Len(calls[1].diffed)].res.status = "err"

\* The voxels stored for label at block b (none when the key is absent).
StoredVoxels(st, label, b) ==
    IF <<label, b>> \in DOMAIN st THEN Voxels(st[<<label, b>>]) ELSE {}

AllBlocks(c) == {k[2] : k \in DOMAIN store \cup DOMAIN c.pre}

LabelSize(st, label) == MapNumVoxels(GetLabelRLEs(st, label))

RECURSIVE SumSizes(_, _)
SumSizes(st, S) ==
    IF S = {} THEN 0
    ELSE LET l == CHOOSE x \in S : TRUE IN LabelSize(st, l) + SumSizes(st, S \ {l})

\* What C4 says of the store left by the merge c.
MergeUnionStored(c) ==
    /\ \A b \in AllBlocks(c) :
         /\ StoredVoxels(store, c.target, b)
              = StoredVoxels(c.pre, c.target, b)
                \cup UNION {StoredVoxels(c.pre, l, b) : l \in c.merged}
         /\ <<c.target, b>> \in DOMAIN store
              <=> \E l \in c.merged \cup {c.target} : <<l, b>> \in DOMAIN c.pre
    /\ \A l \in c.merged : LabelBlocks(store, l) = {}

\* C4: after a merge that returned success, with the target not among the
\* merged labels, the target holds at every block the union of the voxels it
\* and the merged-from labels held there, and no merged-from label has a key.
C4_MergeUnion ==
    \A p \in Procs :
        (Done(p, "merge") /\ calls[p].res = "ok"
            /\ calls[p].target \notin calls[p].merged)
        => MergeUnionStored(calls[p])

\* C5: the ChangeSize(replace) message of a merge carries the target's voxel
\* count at the start of the merge as OldSize and OldSize plus the voxel counts
\* of all merged-from labels as NewSize, and before it each merged-from label
\* was reported in one ChangeSize(delete) message with its size and OldKnown set.
C5_MergeSizes ==
    \A p \in Procs :
        LET c  == calls[p]
            es == EventsOf(p)
        IN  \A i \in DOMAIN es :
              es[i].msg.type = "DeltaReplaceSize" =>
                /\ es[i].msg.label = c.target
                /\ es[i].msg.oldSize = LabelSize(c.pre, c.target)
                /\ es[i].msg.newSize
                     = LabelSize(c.pre, c.target) + SumSizes(c.pre, c.merged)
                /\ \A l \in c.merged :
                     Cardinality({j \in 1..(i - 1) :
                        /\ es[j].ok
                        /\ es[j].msg = [type |-> "DeltaDeleteSize", label |-> l,
                                        oldSize |-> LabelSize(c.pre, l),
                                        oldKnown |-> TRUE]}) = 1

\* A merge of two non-empty labels into a non-empty target that published
\* its ChangeSize(replace) message.
C5_Witness ==
    LET c == calls[1] es == EventsOf(1) IN
    /\ c.op = "merge" /\ Cardinality(c.merged) = 2 /\ c.target \notin c.merged
    /\ \A l \in c.merged \cup {c.target} : LabelSize(c.pre, l) > 0
    /\ \E i \in DOMAIN es : es[i].msg.type = "DeltaReplaceSize" /\ es[i].ok

\* The decoded split volume of c is a non-empty subset of fromLabel's voxels.
SubsetSplit(c) ==
    LET d == DecodePayload(c.payload) IN
    /\ d.ok
    /\ Voxels(d.split) # {}
    /\ Voxels(d.split) \subseteq LabelVoxels(c.pre, c.fromLabel)

\* What C6 says of the store left by the split c.
SplitStored(c) ==
    LET split == DecodePayload(c.payload).split IN
    /\ GetLabelRLEs(store, c.toLabel) = Partition(split)
    /\ \A b \in AllBlocks(c) :
         LET left == StoredVoxels(c.pre, c.fromLabel, b) \ Voxels(split)
         IN  IF left = {} THEN <<c.fromLabel, b>> \notin DOMAIN store
             ELSE /\ <<c.fromLabel, b>> \in DOMAIN store
                  /\ store[<<c.fromLabel, b>>] = RunsOf(left)

\* C6: a split of a sub-volume of fromLabel (in one or several blocks), none
\* of whose store and publish calls fails, returns success, and then the new
\* label holds the split runs by block and every block of fromLabel holds its
\* original voxels minus the split voxels.
C6_SplitResult ==
    \A p \in Procs :
        (Done(p, "split") /\ SubsetSplit(calls[p]) /\ ~calls[p].fault)
        => /\ calls[p].res = "ok"
           /\ SplitStored(calls[p])

\* C7: a successful split has published ChangeSize(new) for the new label
\* with the voxel count of the decoded payload, and ChangeSize(modify) for
\* fromLabel with the negative of that count.
C7_SplitSizes ==
    \A p \in Procs :
        (Done(p, "split") /\ calls[p].res = "ok") =>
            LET c  == calls[p]
                es == EventsOf(p)
                n  == NumVoxels(DecodePayload(c.payload).split)
            IN  /\ Cardinality({i \in DOMAIN es :
                      /\ es[i].ok /\ es[i].event = "ChangeSizeEvent"
                      /\ es[i].msg = [type |-> "DeltaNewSize", label |-> c.ret,
                                      size |-> n]}) = 1
                /\ Cardinality({i \in DOMAIN es :
                      /\ es[i].ok /\ es[i].event = "ChangeSizeEvent"
                      /\ es[i].msg = [type |-> "DeltaModSize", label |-> c.fromLabel,
                                      sizeChange |-> 0 - n]}) = 1

\* A successful split of a payload of two runs in two blocks.
C7_Witness ==
    /\ Done(1, "split") /\ calls[1].res = "ok"
    /\ Len(calls[1].split) = 2
    /\ NumVoxels(calls[1].split) > 3

\* C8: whenever the scan of a split meets a block of fromLabel whose stored
\* runs equal the split runs of that block, a delete of that block's key is
\* queued, and once the batch is committed the key is gone.
C8_FullBlockDelete ==
    \A p \in Procs :
        LET c == calls[p] IN
        \A i \in DOMAIN c.diffed :
            c.splitmap[c.diffed[i].blk] = c.diffed[i].orig =>
                /\ \E k \in DOMAIN c.batch :
                     c.batch[k] = BatchDelete(<<c.fromLabel, c.diffed[i].blk>>)
                /\ c.committed => <<c.fromLabel, c.diffed[i].blk>> \notin DOMAIN store

\* C9: for a split run list (of at least one run, as every block of a split
\* map has) whose voxels are a subset of the original's, diffBlock returns without error and the remaining runs hold as many voxels
\* as the original minus the split.
C9_DiffVoxelCount ==
    (dres # DiffNone /\ dsplit # <<>> /\ Voxels(dsplit) \subseteq Voxels(dorig))
    => /\ dres.status = "ok"
       /\ NumVoxels(dres.modified) = NumVoxels(dorig) - NumVoxels(dsplit)

\* C10: when the split run list equals the original run list, diffBlock
\* returns a full duplicate with no remaining run and no error; and it
\* reports a full duplicate only when no original voxel remains.
C10_DiffFullDuplicate ==
    dres # DiffNone =>
        /\ SortRLEs(dsplit) = dorig
             => (dres.status = "ok" /\ dres.dup /\ dres.modified = <<>>)
        /\ (dres.status = "ok" /\ dres.dup)
             => Voxels(dorig) \ Voxels(dsplit) = {}

\* C11: whenever some run of the split meets no run of the (non-empty)
\* original, and so none of the runs remaining of it, diffBlock returns an
\* error and no result runs.
C11_DiffRejects ==
    (dres # DiffNone /\ dorig # <<>>
        /\ \E i \in DOMAIN dsplit : RunVoxels(dsplit[i]) \cap Voxels(dorig) = {})
    => /\ dres.status = "err"
       /\ dres.modified = <<>>
       /\ ~dres.dup

\* The decoded split volume of c has a voxel that fromLabel did not hold.
NotSubsetSplit(c) ==
    LET d == DecodePayload(c.payload) IN
    /\ d.ok
    /\ ~(Voxels(d.split) \subseteq LabelVoxels(c.pre, c.fromLabel))

\* The last diffBlock call of the scan of c returned an error.
DiffErr(c) ==
    /\ c.diffed # <<>>
    /\ c.diffed[Len(c.diffed)].res.status = "err"

\* C12: in a split whose volume is not a subset of fromLabel, fromLabel's
\* stored blocks stay as they were at the call; and when the call has
\* returned with no store or publish call failing, it has returned an error,
\* the batch queued for fromLabel was not committed, and the new label holds
\* the blocks of the split that were committed before the scan.
C12_SplitAbort ==
    \A p \in Procs :
        LET c == calls[p] IN
        (c.op = "split" /\ NotSubsetSplit(c)) =>
            /\ GetLabelRLEs(store, c.fromLabel) = GetLabelRLEs(c.pre, c.fromLabel)
            /\ (Returned(c) /\ ~c.fault) =>
                  /\ c.res = "err"
                  /\ ~c.committed
                  /\ GetLabelRLEs(store, c.toLabel) = Partition(DecodePayload(c.payload).split)

\* The split c was refused by the store check of lines 1226-1235, or, with
\* no store or publish call failing, because its payload cannot be decoded.
SplitRefused(c) ==
    \/ c.marked = NoHeld
    \/ ~DecodePayload(c.payload).ok /\ ~c.fault

\* C13: a split whose payload is malformed (wrong encoding tag, truncated
\* header, run count or run records), or whose store is not batch-capable,
\* has returned an error with the store as it was at the call and with no
\* label handed out beyond the labels that existed then.
C13_SplitRejects ==
    \A p \in Procs :
        LET c == calls[p] IN
        (Done(p, "split") /\ SplitRefused(c)) =>
            /\ c.res = "err"
            /\ store = c.pre
            /\ nextLabel \in InitLabels

\* A store call of c has failed: one of its store or publish calls failed
\* and every message of it was delivered.
StoreFailed(p) ==
    /\ calls[p].fault
    /\ \A i \in DOMAIN EventsOf(p) : EventsOf(p)[i].ok

\* C14: a merge or split one of whose store calls (read, range scan, delete
\* range, batch commit) failed has returned an error to its caller.
C14_StoreFailureReturned ==
    \A p \in Procs :
        (calls[p].pc = "done" /\ StoreFailed(p)) => calls[p].res = "err"

\* C15: a publish call of a merge or split that returned an error is the
\* last thing the call did: the call has returned an error, the failed
\* message is the last one it published, and the store operations that follow
\* that publish in the code were not performed (nothing written when a Start
\* or SplitLabel publish failed, nothing committed when the MergeBlock
\* publish failed).
C15_PublishErrorStops ==
    \A p \in Procs :
        LET es == EventsOf(p)
            c  == calls[p]
        IN  \A i \in DOMAIN es :
              ~es[i].ok =>
                /\ i = Len(es)
                /\ Returned(c)
                /\ c.res = "err"
                /\ es[i].event \in {"MergeStartEvent", "SplitStartEvent", "SplitLabelEvent"}
                     => store = c.pre
                /\ es[i].event = "MergeBlockEvent"
                     => ~c.committed /\ c.batch = <<>>

\* A merge whose MergeBlock publish failed after a merged-from label with
\* stored blocks was deleted: nothing was committed, nothing published after.
C15_Witness ==
    LET c == calls[1] es == EventsOf(1) IN
    /\ Done(1, "merge") /\ c.res = "err"
    /\ es # <<>>
    /\ es[Len(es)].event = "MergeBlockEvent" /\ ~es[Len(es)].ok
    /\ c.blocksChanged # {}
    /\ ~c.committed /\ c.batch = <<>>

\* C16: when a merge has returned without its batch committed, after deleting
\* the key range of one or more merged-from labels, the deleted labels have
\* no key, the target (when it is not itself merged-from) holds the blocks it
\* held at the call, and the messages published before (MergeStart and the
\* ChangeSize(delete) of every deleted label) are still in the delivered log.
C16_NoRollback ==
    \A p \in Procs :
        LET c  == calls[p]
            es == EventsOf(p)
        IN  (Done(p, "merge") /\ c.deleted # {} /\ ~c.committed) =>
              /\ \A l \in c.deleted : LabelBlocks(store, l) = {}
              /\ c.target \notin c.merged
                   => GetLabelRLEs(store, c.target) = GetLabelRLEs(c.pre, c.target)
              /\ es # <<>> /\ es[1].ok /\ es[1].event = "MergeStartEvent"
              /\ \A l \in c.deleted :
                   \E i \in DOMAIN es :
                       /\ es[i].ok
                       /\ es[i].msg = DeltaDeleteSize(l, LabelSize(c.pre, l))

\* A merge of two labels into a third that failed on the second label (its
\* read or its delete-range) after the stored blocks of the first were deleted.
C16_Witness ==
    LET c == calls[1] IN
    /\ Done(1, "merge") /\ c.res = "err" /\ ~c.committed
    /\ c.target \notin c.merged
    /\ Cardinality(c.merged) = 2 /\ Cardinality(c.deleted) = 1
    /\ \A l \in c.deleted : LabelBlocks(c.pre, l) # {}
    /\ LabelBlocks(c.pre, c.target) # {}
    /\ Len(EventsOf(1)) \in {2, 3}
    /\ \A i \in DOMAIN EventsOf(1) : EventsOf(1)[i].ok

\* The labels the call c marks dirty.
CallLabels(c) ==
    IF c.op = "merge" THEN c.merged \cup {c.target} ELSE {c.fromLabel}

\* C17: a merge or split that has been called and has not returned can always
\* take its next step, whatever the registry holds (it is never blocked); and
\* a call of which no store or publish call failed is not rejected: a merge
\* returns success after publishing all its messages, and a split that
\* returned an error got it from the payload decoder or the differencer.
C17_DirtyNotConsulted ==
    \A p \in Procs :
        LET c == calls[p] IN
        /\ c.pc \notin {"idle", "done"} => ENABLED StepOf(p)
        /\ (Done(p, "merge") /\ ~c.fault)
             => c.res = "ok" /\ Len(EventsOf(p)) = Cardinality(c.merged) + 4
        /\ (Done(p, "split") /\ ~c.fault /\ c.res = "err")
             => ~DecodePayload(c.payload).ok \/ DiffErr(c)

\* Goroutine 2 was called on labels of which one was marked dirty by the call
\* of goroutine 1, ran all its steps and returned success while goroutine 1
\* was still in flight holding its marks.
C17_Witness ==
    LET c1 == calls[1] c2 == calls[2] IN
    /\ c1.pc \notin {"idle", "done"}
    /\ \E l \in CallLabels(c1) \cap CallLabels(c2) :
         /\ c1.marked[l] > 0 /\ c1.released[l] = 0
         /\ c2.dirty0[l] > 0
    /\ c2.pc = "done" /\ c2.res = "ok" /\ ~c2.fault
    /\ c2.marked = c2.released
    /\ \E l \in CallLabels(c2) : c2.marked[l] > 0

\* The voxels of the requested tile, and those of the volume.
TileBox(req) ==
    LET off == TileOffset(req.plane, req.coord, TileSize)
        sz  == GetPoint3dFrom2d(req.plane, TileSize)
    IN  {<<x, y, z>> : x \in off[1]..(off[1] + sz[1] - 1),
                       y \in off[2]..(off[2] + sz[2] - 1),
                       z \in off[3]..(off[3] + sz[3] - 1)}

VolumeBox ==
    {<<x, y, z>> : x \in 0..(VolumeSize[1] - 1), y \in 0..(VolumeSize[2] - 1),
                   z \in 0..(VolumeSize[3] - 1)}

\* C18: a request with noblanks=true for a tile of an available scaling that
\* lies entirely outside the volume is answered, when no call of serveTile
\* fails, with a placeholder tile: a blank image of the requested width and
\* height, and no error.
C18_NoBlanksPlaceholder ==
    (tresp # NoTileResponse /\ treq.scale \in TileScales /\ treq.fail = ""
        /\ treq.noblanks = "true" /\ TileBox(treq) \cap VolumeBox = {})
    => /\ tresp.kind = "blank"
       /\ ~tresp.err
       /\ tresp.size = <<TileSize, TileSize>>

\* C19: for a split that is a subset of the original and leaves the first
\* original run untouched, diffBlock succeeds and the untouched first run is
\* among the runs it returns.
C19_DiffKeepsUntouched ==
    (dres # DiffNone /\ dsplit # <<>> /\ dorig # <<>>
        /\ Voxels(dsplit) \subseteq Voxels(dorig)
        /\ RunVoxels(dorig[1]) \cap Voxels(dsplit) = {})
    => /\ dres.status = "ok"
       /\ \E i \in DOMAIN dres.modified : dres.modified[i] = dorig[1]

\* C20: for a split of at least one run (as every block of a split map has)
\* that is a subset of the original and leaves some voxel of it, diffBlock
\* returns a remaining list, which holds the original's voxels minus the
\* split's, each once, as runs of positive length sorted ascending by start
\* coordinate.
C20_DiffRemainderSorted ==
    (dres # DiffNone /\ dsplit # <<>> /\ Voxels(dsplit) \subseteq Voxels(dorig)
        /\ Voxels(dorig) \ Voxels(dsplit) # {}) =>
        /\ dres.status = "ok" /\ ~dres.dup
        /\ IsSorted(dres.modified)
        /\ \A i \in DOMAIN dres.modified : dres.modified[i].n > 0
        /\ Voxels(dres.modified) = Voxels(dorig) \ Voxels(dsplit)
        /\ NumVoxels(dres.modified) = Cardinality(Voxels(dorig) \ Voxels(dsplit))

\* The blocks the merged-from labels of c held at the call.
MergedBlocks(c) == UNION {LabelBlocks(c.pre, l) : l \in c.merged}

\* C21: the MergeBlock message of a merge carries exactly the blocks held by
\* at least one merged-from label; when it is published the key range of
\* every merged-from label has been deleted and the target's batch is not yet
\* committed (nor has any put been queued in it), and puts are queued and
\* the batch is committed only after it was delivered.
C21_MergeBlockSet ==
    \A p \in Procs :
        LET c  == calls[p]
            es == EventsOf(p)
        IN  /\ \A i \in DOMAIN es :
                 es[i].event = "MergeBlockEvent" =>
                   /\ es[i].msg.blocks = MergedBlocks(c)
                   /\ c.deleted = c.merged
                   /\ (i = Len(es) /\ c.pc \in {"m_commit", "m_defer", "done"})
                        => ~c.committed
                   /\ (i = Len(es) /\ (c.pc = "m_commit" \/ ~es[i].ok))
                        => c.batch = <<>>
            /\ (c.op = "merge" /\ (c.committed \/ c.batch # <<>>)) =>
                 \E i \in DOMAIN es : es[i].event = "MergeBlockEvent" /\ es[i].ok

\* A merge of two labels holding three blocks between them has just
\* published MergeBlock and stands before its commit.
C21_Witness ==
    LET c == calls[1] es == EventsOf(1) IN
    /\ c.pc = "m_commit"
    /\ Cardinality(c.merged) = 2 /\ c.target \notin c.merged
    /\ es[Len(es)].event = "MergeBlockEvent" /\ es[Len(es)].ok
    /\ Cardinality(es[Len(es)].msg.blocks) >= 3
    /\ \E b \in es[Len(es)].msg.blocks : <<c.target, b>> \notin DOMAIN c.pre

\* Key k holds in the store what it held at the call of c (or is absent in both).
KeyUnchanged(c, k) ==
    /\ k \in DOMAIN store <=> k \in DOMAIN c.pre
    /\ k \in DOMAIN store => store[k] = c.pre[k]

AllKeys(c) == DOMAIN store \cup DOMAIN c.pre

\* C22: at every point of a merge, the keys of labels outside the target and
\* the merged-from set are as at the call, and so are the target's blocks that
\* no merged-from label held; the target's other blocks change only by the
\* commit of the one batch, which holds nothing but puts of changed blocks
\* of the target, at most one each, and one for every changed block once the
\* loop queueing them has finished.
C22_MergeFrame ==
    \A p \in Procs :
        LET c == calls[p] IN
        c.op = "merge" =>
            /\ \A k \in AllKeys(c) :
                 k[1] \notin c.merged \cup {c.target} => KeyUnchanged(c, k)
            /\ \A k \in AllKeys(c) :
                 (k[1] = c.target /\ k[2] \notin MergedBlocks(c)) => KeyUnchanged(c, k)
            /\ (~c.committed /\ c.target \notin c.merged) =>
                 \A k \in AllKeys(c) : k[1] = c.target => KeyUnchanged(c, k)
            /\ {c.batch[i].key : i \in DOMAIN c.batch}
                 \subseteq {<<c.target, b>> : b \in MergedBlocks(c)}
            /\ (c.committed \/ c.pc \in {"m_replace", "m_end"} \/ (Returned(c) /\ c.res = "ok"))
                 => {c.batch[i].key : i \in DOMAIN c.batch}
                      = {<<c.target, b>> : b \in MergedBlocks(c)}
            /\ Len(c.batch) = Cardinality({c.batch[i].key : i \in DOMAIN c.batch})
            /\ \A i \in DOMAIN c.batch : c.batch[i].op = "put"

\* A committed merge whose target holds a block no merged-from label held,
\* beside a label that takes no part in the merge.
C22_Witness ==
    LET c == calls[1] IN
    /\ c.op = "merge" /\ c.committed /\ c.batch # <<>>
    /\ c.target \notin c.merged
    /\ LabelBlocks(c.pre, c.target) \ MergedBlocks(c) # {}
    /\ LabelBlocks(c.pre, c.target) \cap MergedBlocks(c) # {}
    /\ \E k \in DOMAIN c.pre : k[1] \notin c.merged \cup {c.target}
    /\ store # c.pre

\* The blocks of the decoded split volume of c.
SplitBlocks(c) == DOMAIN Partition(DecodePayload(c.payload).split)

\* C23: at every point of a split, every block of fromLabel that is not a
\* block of the split (those outside the Z range of the split blocks
\* included) is stored as at the call, the keys of every label other than
\* fromLabel and the new label are as at the call, and only keys of
\* fromLabel at split blocks are queued in the batch.
C23_SplitFrame ==
    \A p \in Procs :
        LET c == calls[p] IN
        c.op = "split" =>
            /\ \A k \in AllKeys(c) :
                 k[1] \notin {c.fromLabel, c.toLabel} => KeyUnchanged(c, k)
            /\ \A k \in AllKeys(c) :
                 (k[1] = c.fromLabel /\ k[2] \notin SplitBlocks(c)) => KeyUnchanged(c, k)
            /\ \A i \in DOMAIN c.batch :
                 /\ c.batch[i].key[1] = c.fromLabel
                 /\ c.batch[i].key[2] \in SplitBlocks(c)

\* A split whose batch was committed after the scan, of a label that holds a
\* block outside the Z range of the split blocks and a block inside it that
\* is no split block, beside another label's keys.
C23_Witness ==
    LET c == calls[1] IN
    /\ c.op = "split" /\ c.committed /\ c.splitblks # <<>>
    /\ \E b \in LabelBlocks(c.pre, c.fromLabel) :
         b[1] < c.splitblks[1][1] \/ b[1] > c.splitblks[Len(c.splitblks)][1]
    /\ \E b \in LabelBlocks(c.pre, c.fromLabel) \ SplitBlocks(c) :
         c.splitblks[1][1] <= b[1] /\ b[1] <= c.splitblks[Len(c.splitblks)][1]
    /\ \E k \in DOMAIN c.pre : k[1] \notin {c.fromLabel, c.toLabel}
    /\ LabelBlocks(store, c.toLabel) # {}

\* The range scan of the split c has run through all keys of the range.
ScanDone(c) ==
    /\ c.op = "split"
    /\ \/ c.pc \in {"s_commit", "s_new", "s_mod", "s_end"}
       \/ Returned(c) /\ c.res = "ok"

\* C24: when the scan of a split has run through, every block that is a
\* split block and was stored for fromLabel has been handed to diffBlock
\* exactly once, with its stored runs, and exactly one delete or put of its
\* key is queued.
C24_ScanDiffsEveryMatch ==
    \A p \in Procs :
        LET c == calls[p] IN
        ScanDone(c) =>
            \A b \in SplitBlocks(c) \cap LabelBlocks(c.pre, c.fromLabel) :
                /\ Cardinality({i \in DOMAIN c.diffed :
                       /\ c.diffed[i].blk = b
                       /\ c.diffed[i].orig = c.pre[<<c.fromLabel, b>>]}) = 1
                /\ Cardinality({i \in DOMAIN c.batch :
                       c.batch[i].key = <<c.fromLabel, b>>}) = 1

\* The scan the split c is about to make over the store as it is.
ScanOf(c) ==
    ProcessRange(store, c, ScanRange(store, c), ScanState("ok", 0, <<>>, <<>>))

\* C25: whenever a split is about to scan, for every layout of fromLabel's
\* blocks in the range, the scan does not stop at a read of splitblks[pos]
\* with pos beyond the last split block.
C25_CursorInRange ==
    \A p \in Procs :
        LET c == calls[p] IN
        (c.pc = "s_scan" /\ c.splitblks # <<>>) =>
            ~(ScanOf(c).status = "panic" /\ ScanOf(c).pos >= Len(c.splitblks))

\* C26: for every pair of run lists diffBlock returns normally, with a
\* (remaining, isFullDuplicate) result or with an error; it never faults on
\* the list element it advances from after an excision.
C26_DiffReturns ==
    dres # DiffNone => dres.status \in {"ok", "err"}

\* The voxels stored under the label a split allocated (none before then).
NewLabelVoxels(c) ==
    IF c.toLabel = 0 THEN {} ELSE LabelVoxels(store, c.toLabel)

\* C27: in every state of a split whose volume is a subset of fromLabel, up
\* to and including its return with or without an error, every voxel stored
\* under fromLabel at the call is stored under fromLabel or the new label.
C27_NoVoxelLost ==
    \A p \in Procs :
        LET c == calls[p] IN
        (c.op = "split" /\ SubsetSplit(c)) =>
            LabelVoxels(c.pre, c.fromLabel) \subseteq
                LabelVoxels(store, c.fromLabel) \cup NewLabelVoxels(c)

C27_Witness ==
    LET c == calls[1] IN
    /\ c.op = "split" /\ SubsetSplit(c) /\ c.pc = "done" /\ c.diffed # <<>>
    /\ NewLabelVoxels(c) = Voxels(DecodePayload(c.payload).split)
    /\ NewLabelVoxels(c) # {}
    /\ NewLabelVoxels(c) # LabelVoxels(c.pre, c.fromLabel)
    /\ Len(c.splitblks) = 2

\* The steps of a call at which it writes to the store: the delete-range of a
\* merged-from label, the commit of the target's blocks, the commit of the
\* new label's blocks and the commit of fromLabel's batch.
MutatingSteps == {"m_fold", "m_commit", "s_write", "s_commit"}

\* The call c holds a dirty mark on each of its labels.
HoldsMarks(c) ==
    \A l \in CallLabels(c) :
        /\ c.marked[l] > c.released[l]
        /\ dirty[l] > 0

\* C28: every step of a merge or split that changes the store is one of its
\* writing steps and is taken while the call holds its dirty marks: target
\* and all merged-from labels for a merge, fromLabel for a split.
C28_MutateWhileDirty ==
    [][\A p \in Procs :
         (calls'[p] # calls[p] /\ store' # store) =>
             /\ calls[p].pc \in MutatingSteps
             /\ HoldsMarks(calls[p])]_vars

C28_Witness ==
    LET c1 == calls[1] c2 == calls[2] IN
    /\ c1.op = "merge" /\ c1.pc = "m_replace" /\ c1.committed
    /\ c1.deleted = c1.merged /\ store # c1.pre
    /\ HoldsMarks(c1)
    /\ c2.op = "split" /\ c2.pc = "s_scan"
    /\ LabelBlocks(store, c2.toLabel) # {}
    /\ HoldsMarks(c2)

EndEvents == {"MergeEndEvent", "SplitEndEvent"}

\* C29: a merge or split that returned an error has no delivered End event;
\* an End event is the last event of its call and is published only when
\* every earlier publish of the call was delivered, the payload of a split was
\* decoded and every differencer call of its scan returned without error.  A
\* call failing after its Start event leaves a Start and no End.
C29_NoEndAfterError ==
    \A p \in Procs :
        LET c == calls[p] es == EventsOf(p) IN
        /\ (Returned(c) /\ c.res # "ok") =>
               ~\E i \in DOMAIN es : es[i].event \in EndEvents /\ es[i].ok
        /\ \A i \in DOMAIN es :
               es[i].event \in EndEvents =>
                   /\ i = Len(es)
                   /\ \A j \in 1..(i - 1) : es[j].ok
                   /\ es[i].ok => (Returned(c) /\ c.res = "ok")
                   /\ c.op = "split" =>
                        /\ DecodePayload(c.payload).ok
                        /\ \A k \in DOMAIN c.diffed : c.diffed[k].res.status = "ok"

C29_Witness ==
    LET c == calls[1] es == EventsOf(1) IN
    /\ Done(1, "merge") /\ c.res = "err" /\ c.committed
    /\ Len(es) >= 4
    /\ es[1].event = "MergeStartEvent" /\ es[1].ok
    /\ ~es[Len(es)].ok
    /\ \A i \in DOMAIN es : es[i].event \notin EndEvents

\* The store a merge of the one label from into target leaves when it runs
\* alone on st and none of its calls fails.
MergeAlone(st, target, from) ==
    LET toRLEs   == GetLabelRLEs(st, target)
        fromRLEs == GetLabelRLEs(st, from)
        folded   == FoldBlocks(toRLEs, fromRLEs)
        blks     == SortBlocks(DOMAIN fromRLEs)
    IN  Commit(DeleteRange(st, from),
               [i \in 1..Len(blks) |-> BatchPut(<<target, blks[i]>>, folded[blks[i]])])

\* The one merged-from label of the merge c.
FromOf(c) == CHOOSE l \in c.merged : TRUE

\* C30: when two merges on disjoint label sets, interleaved in any way, have
\* both returned and no store or publish call of either failed, both have
\* succeeded, the store is the one left by running them one after the other
\* (in either order), and the registry is as it was at first.
C30_DisjointMerges ==
    LET c1 == calls[1] c2 == calls[2] IN
    (Done(1, "merge") /\ Done(2, "merge") /\ ~c1.fault /\ ~c2.fault) =>
        /\ c1.res = "ok" /\ c2.res = "ok"
        /\ store = MergeAlone(MergeAlone(DisjStore, c1.target, FromOf(c1)),
                              c2.target, FromOf(c2))
        /\ store = MergeAlone(MergeAlone(DisjStore, c2.target, FromOf(c2)),
                              c1.target, FromOf(c1))
        /\ dirty = [l \in Labels |-> 0]

\* Both merges returned success, the second having been called between the
\* delete-range and the commit of the first and its events lying between
\* events of the first.
C30_Witness ==
    LET c1 == calls[1] c2 == calls[2] IN
    /\ Done(1, "merge") /\ Done(2, "merge") /\ ~c1.fault /\ ~c2.fault
    /\ c1.res = "ok" /\ c2.res = "ok"
    /\ c1.pre = DisjStore
    /\ c2.pre = DeleteRange(DisjStore, FromOf(c1))
    /\ LabelBlocks(DisjStore, FromOf(c1)) # {}
    /\ \E i, j, k \in DOMAIN events :
         /\ i < j /\ j < k
         /\ events[i].proc = 1 /\ events[j].proc = 2 /\ events[k].proc = 1
    /\ LabelBlocks(store, c1.target) # LabelBlocks(DisjStore, c1.target)
    /\ LabelBlocks(store, c2.target) # LabelBlocks(DisjStore, c2.target)

\* The voxels the merge c found stored under its target and its merged-from
\* labels when it was called.
MergeInputVoxels(c) ==
    UNION {LabelVoxels(c.pre, l) : l \in c.merged \cup {c.target}}

\* C31: when two merges with the same target and different merged-from
\* labels, their steps interleaved, have both returned success with none of
\* their store or publish calls failing, the target's stored blocks hold
\* every voxel the target and both merged-from labels held before.
C31_ConcurrentMergeConserves ==
    LET c1 == calls[1] c2 == calls[2] IN
    (/\ Done(1, "merge") /\ Done(2, "merge")
     /\ c1.target = c2.target /\ c1.merged # c2.merged
     /\ c1.res = "ok" /\ c2.res = "ok" /\ ~c1.fault /\ ~c2.fault) =>
        MergeInputVoxels(c1) \cup MergeInputVoxels(c2)
            \subseteq LabelVoxels(store, c1.target)

\* The payload of c has a valid header and a run count of zero.
EmptySplit(c) ==
    LET d == DecodePayload(c.payload) IN
    /\ c.op = "split"
    /\ d.ok
    /\ d.split = <<>>

\* C32: a split whose payload has a valid header and no runs returns an error
\* or a new label, never failing on the first or last entry of its empty
\* block list, and leaves the blocks of fromLabel as they were.
C32_EmptySplitReturns ==
    \A p \in Procs :
        LET c == calls[p] IN
        EmptySplit(c) =>
            /\ Returned(c) => c.res \in {"ok", "err"}
            /\ GetLabelRLEs(store, c.fromLabel) = GetLabelRLEs(c.pre, c.fromLabel)

\* The tile specification of the request, and the width and height, in the
\* plane of the request, of a 3d size.
TileOf(req) ==
    GetGoogleSpec(req.scale, req.plane, TileOffset(req.plane, req.coord, TileSize), TileSize)

PlaneWidth(plane, size)  == IF plane = "yz" THEN size[2] ELSE size[1]

PlaneHeight(plane, size) == IF plane = "xy" THEN size[2] ELSE size[3]

\* The received rows copied to the start of the rows of a buffer of the
\* requested width and height, all other bytes zero.
IsPadded(body, data, w, h, bpv) ==
    /\ Len(body) = TileSize * TileSize * bpv
    /\ \A i \in DOMAIN body :
         LET y   == (i - 1) \div (TileSize * bpv)
             col == (i - 1) % (TileSize * bpv)
         IN  body[i] = IF y < h /\ col < w * bpv
                       THEN data[y * w * bpv + col + 1] ELSE 0

\* C33: for a tile partly outside the volume, in the XY, XZ or YZ plane, for
\* which the upstream answered with the data of the retrievable size and no
\* call of serveTile fails, the response is the buffer of full tile size
\* (width x height x bytes per voxel) holding each received row at the start
\* of its row and zero elsewhere.
C33_PadTileFull ==
    LET tile == TileOf(treq) IN
    (/\ tresp # NoTileResponse /\ treq.plane \in Planes
     /\ treq.upstream.get /\ treq.upstream.full /\ treq.fail = ""
     /\ tile.found /\ ~tile.outside /\ tile.edge)
    => /\ tresp.kind = "padded"
       /\ IsPadded(tresp.body, UpstreamData(tile),
                   PlaneWidth(treq.plane, tile.size),
                   PlaneHeight(treq.plane, tile.size), tile.bytesPerVoxel)
====
